---------------------------- MODULE Spec2Model ----------------------------
(***************************************************************************)
(* Model of the text patch engine of abstraction-ide:                      *)
(*   - DiffCalculator.calculateInternalDiff / applyDiff   (SpecDC)         *)
(*   - DiffCalculator.calculateUnifiedDiff (line scan)    (SpecUD)         *)
(*   - DiffUtils.applyUnifiedDiff (tiered applier)        (SpecDU)         *)
(* A JavaScript string is a sequence of one-character strings; a text is   *)
(* split into lines and joined again exactly as String.split / Array.join  *)
(* do it.  Line indices i, j are zero-based as in the source; a sequence   *)
(* element is read at index + 1.                                           *)
(***************************************************************************)
EXTENDS Integers, Sequences, FiniteSets, TLC

VARIABLES
    pc,            \* position of the modelled call
    oldText,       \* calculate*Diff: first argument
    newText,       \* calculate*Diff: second argument
    i,             \* cursor in oldLines
    j,             \* cursor in newLines
    hunks,         \* hunks pushed so far (strings)
    hunkSrc,       \* per hunk, where each of its lines was taken from
    diff,          \* the diff string handed to the applier
    originalText,  \* the applier's base text
    driftPos,      \* where the base drifted from oldText (-1: no drift)
    hunkList,      \* applyUnifiedDiff: result of findDiffHunks
    k,             \* applyUnifiedDiff: number of hunks applied so far
    result,        \* the applier's working / returned text
    error,          \* the error thrown by the applier, or NoError
    changes,       \* extractChanges: records pushed so far
    hasContentChange,  \* extractChanges: the flag returned with them
    callContent,  \* applyHunk and its tiers: the text to patch
    callHunk,  \* applyHunk: the hunk string
    callBefore,  \* the hunk's before view (context and removed lines)
    callAfter,  \* the hunk's after view (context and added lines)
    returned,  \* what the called function returned or yielded so far
    genTotal,  \* getContextSizes: loop variable total
    genPre,  \* getContextSizes: loop variable pre
    lockPc,  \* withLock: position of each caller
    awaitedLock,  \* withLock: what each caller read from generationLocks and awaits
    generationLocks,  \* generationLocks.get(fileUri) (0: no entry, c: the lock caller c made)
    resolvedLocks,  \* lock promises whose resolveLock has been called
    savePc,  \* handleCodeSave: position of each invocation
    saveMapping,  \* handleCodeSave: the mapping each invocation read (its version, 0: none)
    isApplyingChanges,  \* AbstractionManager.isApplyingChanges
    codeMap,  \* codeMap entry of the document (its version, 0: none)
    providePc,  \* provideTextDocumentContent: position of each call
    genPc,  \* generateContent: position of the run each call started
    generatingContent,  \* generatingContent.get(uri)
    cachedPseudocode,  \* codeMapManager.get(fileUri)?.pseudocode is truthy
    immediates  \* callbacks queued with setImmediate by generateContent, oldest first

vars == <<pc, oldText, newText, i, j, hunks, hunkSrc, diff, originalText,
          driftPos, hunkList, k, result, error, changes, hasContentChange,
          callContent, callHunk, callBefore, callAfter, returned, genTotal,
          genPre,
          lockPc, awaitedLock, generationLocks, resolvedLocks,
          savePc, saveMapping, isApplyingChanges, codeMap,
          providePc, genPc, generatingContent, cachedPseudocode, immediates>>

provideVars == <<providePc, genPc, generatingContent, cachedPseudocode, immediates>>

saveVars == <<savePc, saveMapping, isApplyingChanges, codeMap>>

lockVars == <<lockPc, awaitedLock, generationLocks, resolvedLocks>>

tierVars == <<callContent, callHunk, callBefore, callAfter, returned,
              genTotal, genPre>>

(***************************************************************************)
(* Bounds of the model.                                                    *)
(***************************************************************************)
MaxLines == 5          \* lines of a text handed to the diff computers
MaxBaseLines == 2      \* lines of the base text handed to DiffUtils
MaxDiffLines == 4      \* lines of the diff string handed to DiffUtils

(***************************************************************************)
(* Strings.                                                                *)
(***************************************************************************)
NL == "\n"
EmptyStr == << >>
Whitespace == {" ", "\n", "\t"}

Max(a, b) == IF a >= b THEN a ELSE b
Min(a, b) == IF a <= b THEN a ELSE b

\* s.slice(from) on a string or an array (zero-based from, 0 <= from)
SliceFrom(s, from) == SubSeq(s, from + 1, Len(s))

\* s.startsWith(p)
startsWith(s, p) == Len(s) >= Len(p) /\ SubSeq(s, 1, Len(p)) = p

\* Array.prototype.join(sep)
RECURSIVE join(_, _)
join(parts, sep) ==
    IF Len(parts) = 0 THEN EmptyStr
    ELSE IF Len(parts) = 1 THEN parts[1]
    ELSE parts[1] \o sep \o join(Tail(parts), sep)

\* index (one-based) of the first occurrence of the non-empty string
\* search in s at or after position from; 0 if there is none
RECURSIVE indexOf(_, _, _)
indexOf(s, search, from) ==
    IF from + Len(search) - 1 > Len(s) THEN 0
    ELSE IF SubSeq(s, from, from + Len(search) - 1) = search THEN from
    ELSE indexOf(s, search, from + 1)

\* String.prototype.split(search): the pieces between the non-overlapping
\* occurrences of search, found left to right; with the empty search
\* string, the characters of s (none for the empty s)
RECURSIVE split(_, _)
split(s, search) ==
    IF Len(search) = 0 THEN [n \in 1..Len(s) |-> <<s[n]>>]
    ELSE LET at == indexOf(s, search, 1) IN
         IF at = 0 THEN <<s>>
         ELSE <<SubSeq(s, 1, at - 1)>>
              \o split(SubSeq(s, at + Len(search), Len(s)), search)

\* String.prototype.trim()
RECURSIVE trimStart(_)
trimStart(s) ==
    IF Len(s) > 0 /\ s[1] \in Whitespace THEN trimStart(Tail(s)) ELSE s

RECURSIVE trimEnd(_)
trimEnd(s) ==
    IF Len(s) > 0 /\ s[Len(s)] \in Whitespace
    THEN trimEnd(SubSeq(s, 1, Len(s) - 1)) ELSE s

trim(s) == trimEnd(trimStart(s))

\* decimal rendering of a natural number (template literal `${n}`)
Digit(n) == <<"0", "1", "2", "3", "4", "5", "6", "7", "8", "9">>[n + 1]

RECURSIVE numToString(_)
numToString(n) ==
    IF n < 10 THEN <<Digit(n)>>
    ELSE numToString(n \div 10) \o <<Digit(n % 10)>>

(***************************************************************************)
(* Inputs of the diff computers: texts of 1..MaxLines lines.               *)
(***************************************************************************)
LineA == <<"a">>
LineB == <<"b">>
LineX == <<"x">>          \* the unrelated line a drifted base gains
Lines == {LineA, LineB}

SeqsUpTo(S, n) == UNION {[1..m -> S] : m \in 1..n}

Texts == {join(ls, <<NL>>) : ls \in SeqsUpTo(Lines, MaxLines)}

NoError == [name |-> "none"]
Unused == << >>

(***************************************************************************)
(* DiffCalculator.calculateInternalDiff (one hunk with header per changed  *)
(* region) and DiffCalculator.applyDiff (positional applier).              *)
(***************************************************************************)
contextLines == 3

\* the look-ahead loop: returns the cursors it stops at and changeFound
RECURSIVE lookAhead(_, _, _, _, _, _)
lookAhead(oldLines, newLines, lookAheadOld, lookAheadNew, changeFound, hunkLen) ==
    IF ~(lookAheadOld < Len(oldLines) \/ lookAheadNew < Len(newLines))
    THEN [old |-> lookAheadOld, new |-> lookAheadNew, changeFound |-> changeFound]
    ELSE IF lookAheadOld < Len(oldLines) /\ lookAheadNew < Len(newLines)
            /\ oldLines[lookAheadOld + 1] = newLines[lookAheadNew + 1]
    THEN IF ~changeFound /\ hunkLen >= contextLines * 2
         THEN [old |-> lookAheadOld, new |-> lookAheadNew,
               changeFound |-> changeFound]
         ELSE lookAhead(oldLines, newLines, lookAheadOld + 1, lookAheadNew + 1,
                        changeFound, hunkLen)
    ELSE lookAhead(oldLines, newLines,
                   IF lookAheadOld < Len(oldLines) THEN lookAheadOld + 1
                                                   ELSE lookAheadOld,
                   IF lookAheadNew < Len(newLines) THEN lookAheadNew + 1
                                                   ELSE lookAheadNew,
                   TRUE, hunkLen)

\* the leading context pushed before the change
leadingContext(oldLines, hunkStartOld, ci) ==
    LET n == Min(contextLines, Max(0, ci - hunkStartOld))
    IN [c \in 1..n |-> <<" ">> \o oldLines[hunkStartOld + c]]

\* processChanges pushing the '+' line only when no '-' line was pushed in
\* the same iteration (else-if instead of two ifs)
RECURSIVE processChangesElseIf(_, _, _, _, _)
processChangesElseIf(oldLines, newLines, lookAheadOld, lookAheadNew, st) ==
    IF ~(st.i < lookAheadOld \/ st.j < lookAheadNew) THEN st
    ELSE IF st.i < Len(oldLines) /\ st.j < Len(newLines)
            /\ oldLines[st.i + 1] = newLines[st.j + 1]
    THEN processChangesElseIf(oldLines, newLines, lookAheadOld, lookAheadNew,
            [st EXCEPT !.hunkLines = Append(@, <<" ">> \o oldLines[st.i + 1]),
                       !.oldCount = @ + 1, !.newCount = @ + 1,
                       !.i = @ + 1, !.j = @ + 1])
    ELSE IF st.i < lookAheadOld
    THEN processChangesElseIf(oldLines, newLines, lookAheadOld, lookAheadNew,
            [st EXCEPT !.foundChange = TRUE,
                       !.hunkLines = Append(@, <<"-">> \o oldLines[st.i + 1]),
                       !.oldCount = @ + 1, !.i = @ + 1])
    ELSE processChangesElseIf(oldLines, newLines, lookAheadOld, lookAheadNew,
            [st EXCEPT !.foundChange = TRUE,
                       !.hunkLines = Append(@, <<"+">> \o newLines[st.j + 1]),
                       !.newCount = @ + 1, !.j = @ + 1])

\* the "process changes" loop; st carries i, j, hunkLines, the two counts
\* and foundChange
RECURSIVE processChanges(_, _, _, _, _)
processChanges(oldLines, newLines, lookAheadOld, lookAheadNew, st) ==
    IF ~(st.i < lookAheadOld \/ st.j < lookAheadNew) THEN st
    ELSE IF st.i < Len(oldLines) /\ st.j < Len(newLines)
            /\ oldLines[st.i + 1] = newLines[st.j + 1]
    THEN processChanges(oldLines, newLines, lookAheadOld, lookAheadNew,
            [st EXCEPT !.hunkLines = Append(@, <<" ">> \o oldLines[st.i + 1]),
                       !.oldCount = @ + 1, !.newCount = @ + 1,
                       !.i = @ + 1, !.j = @ + 1])
    ELSE LET rem == st.i < lookAheadOld
             add == st.j < lookAheadNew
             l1 == IF rem THEN Append(st.hunkLines, <<"-">> \o oldLines[st.i + 1])
                          ELSE st.hunkLines
             l2 == IF add THEN Append(l1, <<"+">> \o newLines[st.j + 1])
                          ELSE l1
         IN processChanges(oldLines, newLines, lookAheadOld, lookAheadNew,
               [st EXCEPT !.foundChange = TRUE,
                          !.hunkLines = l2,
                          !.oldCount = IF rem THEN @ + 1 ELSE @,
                          !.newCount = IF add THEN @ + 1 ELSE @,
                          !.i = IF rem THEN @ + 1 ELSE @,
                          !.j = IF add THEN @ + 1 ELSE @])

\* the hunk header with zero-based start lines
hunkHeaderZeroBased(hunkStartOld, oldCount, hunkStartNew, newCount) ==
    <<"@", "@", " ", "-">> \o numToString(hunkStartOld) \o <<",">>
    \o numToString(oldCount) \o <<" ", "+">> \o numToString(hunkStartNew)
    \o <<",">> \o numToString(newCount) \o <<" ", "@", "@", NL>>

\* `@@ -${hunkStartOld + 1},${oldCount} +${hunkStartNew + 1},${newCount} @@\n`
hunkHeader(hunkStartOld, oldCount, hunkStartNew, newCount) ==
    <<"@", "@", " ", "-">> \o numToString(hunkStartOld + 1) \o <<",">>
    \o numToString(oldCount) \o <<" ", "+">> \o numToString(hunkStartNew + 1)
    \o <<",">> \o numToString(newCount) \o <<" ", "@", "@", NL>>

\* internalDiffIteration that leaves the cursors where they were when the
\* look-ahead found no change (the assignments before `continue` missing)
internalDiffIterationNoAdvance(oldLines, newLines, ci, cj) ==
    LET la == lookAhead(oldLines, newLines, ci, cj, FALSE, 0) IN
    IF ~la.changeFound
    THEN [i |-> ci, j |-> cj, pushed |-> << >>]
    ELSE LET hunkStartOld == Max(0, ci - contextLines)
             hunkStartNew == Max(0, cj - contextLines)
             lead == leadingContext(oldLines, hunkStartOld, ci)
             st == processChanges(oldLines, newLines, la.old, la.new,
                     [i |-> ci, j |-> cj, hunkLines |-> lead,
                      oldCount |-> Len(lead), newCount |-> Len(lead),
                      foundChange |-> FALSE])
         IN [i |-> st.i, j |-> st.j,
             pushed |-> IF st.foundChange
                        THEN <<hunkHeader(hunkStartOld, st.oldCount,
                                          hunkStartNew, st.newCount)
                               \o join(st.hunkLines, <<NL>>)>>
                        ELSE << >>]

\* one iteration of the outer while loop, from cursors ci, cj: the new
\* cursors and the hunks pushed by it
internalDiffIteration(oldLines, newLines, ci, cj) ==
    LET la == lookAhead(oldLines, newLines, ci, cj, FALSE, 0) IN
    IF ~la.changeFound
    THEN [i |-> la.old, j |-> la.new, pushed |-> << >>]
    ELSE LET hunkStartOld == Max(0, ci - contextLines)
             hunkStartNew == Max(0, cj - contextLines)
             lead == leadingContext(oldLines, hunkStartOld, ci)
             st == processChanges(oldLines, newLines, la.old, la.new,
                     [i |-> ci, j |-> cj, hunkLines |-> lead,
                      oldCount |-> Len(lead), newCount |-> Len(lead),
                      foundChange |-> FALSE])
         IN [i |-> st.i, j |-> st.j,
             pushed |-> IF st.foundChange
                        THEN <<hunkHeader(hunkStartOld, st.oldCount,
                                          hunkStartNew, st.newCount)
                               \o join(st.hunkLines, <<NL>>)>>
                        ELSE << >>]

\* applyDiff, lines 98-108: keep the empty lines and the marked lines
RECURSIVE filterDiffLines(_)
filterDiffLines(lines) ==
    IF Len(lines) = 0 THEN << >>
    ELSE LET line == Head(lines) IN
         (IF Len(line) = 0 \/ line[1] \in {" ", "+", "-"}
          THEN <<line>> ELSE << >>) \o filterDiffLines(Tail(lines))

\* applyDiff, lines 119-147: the loop over diffLines
RECURSIVE applyDiffLines(_, _, _, _)
applyDiffLines(diffLines, originalLines, originalIndex, resultLines) ==
    IF Len(diffLines) = 0
    THEN [originalIndex |-> originalIndex, resultLines |-> resultLines]
    ELSE LET diffLine == Head(diffLines)
             rest == Tail(diffLines)
         IN IF Len(diffLine) = 0
            THEN applyDiffLines(rest, originalLines, originalIndex + 1,
                                Append(resultLines, EmptyStr))
            ELSE LET marker == diffLine[1]
                     content == SliceFrom(diffLine, 1)
                 IN CASE marker = " " ->
                           IF originalIndex < Len(originalLines)
                           THEN applyDiffLines(rest, originalLines,
                                   originalIndex + 1,
                                   Append(resultLines,
                                          originalLines[originalIndex + 1]))
                           ELSE applyDiffLines(rest, originalLines,
                                   originalIndex, resultLines)
                      [] marker = "-" ->
                           applyDiffLines(rest, originalLines,
                               IF originalIndex < Len(originalLines)
                               THEN originalIndex + 1 ELSE originalIndex,
                               resultLines)
                      [] marker = "+" ->
                           applyDiffLines(rest, originalLines, originalIndex,
                                          Append(resultLines, content))
                      [] OTHER ->
                           applyDiffLines(rest, originalLines, originalIndex,
                                          resultLines)

\* applyDiff without the loop that copies the remaining original lines
applyDiffNoRemaining(text, diffText) ==
    LET diffLines == filterDiffLines(split(diffText, <<NL>>))
        originalLines == split(text, <<NL>>)
    IN IF Len(diffLines) = 0 THEN text
       ELSE join(applyDiffLines(diffLines, originalLines, 0, << >>).resultLines,
                 <<NL>>)

applyDiff(text, diffText) ==
    LET diffLines == filterDiffLines(split(diffText, <<NL>>))
        originalLines == split(text, <<NL>>)
    IN IF Len(diffLines) = 0 THEN text
       ELSE LET r == applyDiffLines(diffLines, originalLines, 0, << >>)
            IN join(r.resultLines
                    \o SubSeq(originalLines, r.originalIndex + 1,
                              Len(originalLines)),
                    <<NL>>)

----------------------------------------------------------------------------
(***************************************************************************)
(* SpecDC: calculateInternalDiff(oldText, newText), then the base text     *)
(* possibly drifts, then applyDiff(originalText, hunks.join('\n')).        *)
(***************************************************************************)
InitDC ==
    /\ pc = "diff"
    /\ oldText \in Texts
    /\ newText \in Texts
    /\ i = 0
    /\ j = 0
    /\ hunks = << >>
    /\ hunkSrc = Unused
    /\ diff = EmptyStr
    /\ originalText = EmptyStr
    /\ driftPos = -1
    /\ hunkList = Unused
    /\ k = 0
    /\ result = EmptyStr
    /\ error = NoError
    /\ changes = << >>
    /\ hasContentChange = FALSE
    /\ callContent = EmptyStr
    /\ callHunk = EmptyStr
    /\ callBefore = << >>
    /\ callAfter = << >>
    /\ returned = Unused
    /\ genTotal = 0
    /\ genPre = 0
    /\ lockPc = Unused
    /\ awaitedLock = Unused
    /\ generationLocks = 0
    /\ resolvedLocks = {}
    /\ savePc = Unused
    /\ saveMapping = Unused
    /\ isApplyingChanges = FALSE
    /\ codeMap = 0
    /\ providePc = Unused
    /\ genPc = Unused
    /\ generatingContent = FALSE
    /\ cachedPseudocode = FALSE
    /\ immediates = << >>

\* one iteration of the outer loop of calculateInternalDiff
DCIteration ==
    LET oldLines == split(oldText, <<NL>>)
        newLines == split(newText, <<NL>>)
    IN /\ pc = "diff"
       /\ i < Len(oldLines) \/ j < Len(newLines)
       /\ LET it == internalDiffIteration(oldLines, newLines, i, j)
          IN /\ i' = it.i
             /\ j' = it.j
             /\ hunks' = hunks \o it.pushed
       /\ UNCHANGED <<pc, oldText, newText, hunkSrc, diff, originalText,
                      driftPos, hunkList, k, result, error,
                      changes, hasContentChange,
                      tierVars,
                      lockVars,
                      saveVars,
                      provideVars>>

\* the loop ends; the caller renders the diff with hunks.join('\n')
DCReturn ==
    /\ pc = "diff"
    /\ ~(i < Len(split(oldText, <<NL>>)) \/ j < Len(split(newText, <<NL>>)))
    /\ diff' = join(hunks, <<NL>>)
    /\ pc' = "computed"
    /\ UNCHANGED <<oldText, newText, i, j, hunks, hunkSrc, originalText,
                   driftPos, hunkList, k, result, error,
                   changes, hasContentChange,
                   tierVars,
                   lockVars,
                   saveVars,
                   provideVars>>

\* the diff is applied to the text it was computed from
KeepBase ==
    /\ pc = "computed"
    /\ originalText' = oldText
    /\ driftPos' = -1
    /\ pc' = "apply"
    /\ UNCHANGED <<oldText, newText, i, j, hunks, hunkSrc, diff, hunkList, k,
                   result, error,
                   changes, hasContentChange,
                   tierVars,
                   lockVars,
                   saveVars,
                   provideVars>>

\* lines with the line x inserted before (zero-based) position p
insertLine(lines, p, x) ==
    SubSeq(lines, 1, p) \o <<x>> \o SubSeq(lines, p + 1, Len(lines))

\* the base drifts: one unrelated line is inserted before line p
InsertUnrelatedLine ==
    /\ pc = "computed"
    /\ \E p \in 0..Len(split(oldText, <<NL>>)) :
          /\ originalText' = join(insertLine(split(oldText, <<NL>>), p, LineX),
                                  <<NL>>)
          /\ driftPos' = p
    /\ pc' = "apply"
    /\ UNCHANGED <<oldText, newText, i, j, hunks, hunkSrc, diff, hunkList, k,
                   result, error,
                   changes, hasContentChange,
                   tierVars,
                   lockVars,
                   saveVars,
                   provideVars>>

\* the base drifts: one blank line is appended after the last line
AppendBlankLine ==
    /\ pc = "computed"
    /\ originalText' = oldText \o <<NL>>
    /\ driftPos' = Len(split(oldText, <<NL>>))
    /\ pc' = "apply"
    /\ UNCHANGED <<oldText, newText, i, j, hunks, hunkSrc, diff, hunkList, k,
                   result, error,
                   changes, hasContentChange,
                   tierVars,
                   lockVars,
                   saveVars,
                   provideVars>>

DCApply ==
    /\ pc = "apply"
    /\ result' = applyDiff(originalText, diff)
    /\ pc' = "done"
    /\ UNCHANGED <<oldText, newText, i, j, hunks, hunkSrc, diff, originalText,
                   driftPos, hunkList, k, error,
                   changes, hasContentChange,
                   tierVars,
                   lockVars,
                   saveVars,
                   provideVars>>

NextDC ==
    \/ DCIteration \/ DCReturn
    \/ KeepBase \/ InsertUnrelatedLine \/ AppendBlankLine
    \/ DCApply

SpecDC == InitDC /\ [][NextDC]_vars

----------------------------------------------------------------------------
(***************************************************************************)
(* DiffCalculator.calculateUnifiedDiff: the multi-hunk line scan.  A hunk  *)
(* under construction is a sequence of entries; line is the string the     *)
(* code pushes, old / new record the zero-based positions of oldLines /    *)
(* newLines the line stands for (-1: none).  For a leading context line,   *)
(* read from oldLines alone, new is the position of newLines aligned with  *)
(* it at the hunk's start.                                                 *)
(***************************************************************************)
entry(op, text, old, new) ==
    [line |-> <<op>> \o text, op |-> op, old |-> old, new |-> new]

\* lines 17-24: advance over equal lines
RECURSIVE skipEqual(_, _, _)
skipEqual(oldLines, newLines, st) ==
    IF st.i < Len(oldLines) /\ st.j < Len(newLines)
       /\ oldLines[st.i + 1] = newLines[st.j + 1]
    THEN skipEqual(oldLines, newLines,
            [st EXCEPT !.currentHunk =
                          IF Len(@) > 0
                          THEN Append(@, entry(" ", oldLines[st.i + 1], st.i, st.j))
                          ELSE @,
                       !.i = @ + 1, !.j = @ + 1])
    ELSE st

\* lines 28-34: up to 3 lines of context before the change
contextBefore(oldLines, st) ==
    IF Len(st.currentHunk) = 0
    THEN LET contextStart == Max(0, st.i - 3)
         IN [st EXCEPT !.currentHunk =
                [c \in 1..(st.i - contextStart) |->
                    entry(" ", oldLines[contextStart + c], contextStart + c - 1,
                          st.j - st.i + contextStart + c - 1)]]
    ELSE st

\* lines 37-40: removed lines
RECURSIVE removedLines(_, _, _)
removedLines(oldLines, newLines, st) ==
    IF st.i < Len(oldLines)
       /\ (st.j >= Len(newLines) \/ oldLines[st.i + 1] # newLines[st.j + 1])
    THEN removedLines(oldLines, newLines,
            [st EXCEPT !.currentHunk =
                          Append(@, entry("-", oldLines[st.i + 1], st.i, -1)),
                       !.i = @ + 1])
    ELSE st

\* lines 43-46: added lines
RECURSIVE addedLines(_, _, _)
addedLines(oldLines, newLines, st) ==
    IF st.j < Len(newLines)
       /\ (st.i >= Len(oldLines) \/ oldLines[st.i + 1] # newLines[st.j + 1])
    THEN addedLines(oldLines, newLines,
            [st EXCEPT !.currentHunk =
                          Append(@, entry("+", newLines[st.j + 1], -1, st.j)),
                       !.j = @ + 1])
    ELSE st

\* lines 49-55: up to 3 lines of context after the change
RECURSIVE contextAfter(_, _, _, _)
contextAfter(oldLines, newLines, st, contextCount) ==
    IF contextCount < 3 /\ st.i < Len(oldLines) /\ st.j < Len(newLines)
       /\ oldLines[st.i + 1] = newLines[st.j + 1]
    THEN contextAfter(oldLines, newLines,
            [st EXCEPT !.currentHunk =
                          Append(@, entry(" ", oldLines[st.i + 1], st.i, st.j)),
                       !.i = @ + 1, !.j = @ + 1],
            contextCount + 1)
    ELSE st

\* unifiedDiffIteration starting a hunk without testing that a difference
\* was found
unifiedDiffIterationNoGuard(oldLines, newLines, ci, cj) ==
    LET s1 == skipEqual(oldLines, newLines,
                        [i |-> ci, j |-> cj, currentHunk |-> << >>])
        s2 == contextBefore(oldLines, s1)
        s3 == removedLines(oldLines, newLines, s2)
        s4 == addedLines(oldLines, newLines, s3)
        s5 == contextAfter(oldLines, newLines, s4, 0)
    IN [i |-> s5.i, j |-> s5.j,
        pushed |-> IF Len(s5.currentHunk) > 0
                   THEN <<s5.currentHunk>> ELSE << >>]

\* one iteration of the outer while loop (lines 15-63) from cursors ci, cj
\* with an empty currentHunk: the new cursors and the hunk pushed, if any
unifiedDiffIteration(oldLines, newLines, ci, cj) ==
    LET s1 == skipEqual(oldLines, newLines,
                        [i |-> ci, j |-> cj, currentHunk |-> << >>])
    IN IF s1.i < Len(oldLines) \/ s1.j < Len(newLines)
       THEN LET s2 == contextBefore(oldLines, s1)
                s3 == removedLines(oldLines, newLines, s2)
                s4 == addedLines(oldLines, newLines, s3)
                s5 == contextAfter(oldLines, newLines, s4, 0)
            IN [i |-> s5.i, j |-> s5.j,
                pushed |-> IF Len(s5.currentHunk) > 0
                           THEN <<s5.currentHunk>> ELSE << >>]
       ELSE [i |-> s1.i, j |-> s1.j, pushed |-> << >>]

\* currentHunk.join('\n')
hunkText(h) == join([n \in 1..Len(h) |-> h[n].line], <<NL>>)

(***************************************************************************)
(* SpecUD: calculateUnifiedDiff(oldText, newText).                         *)
(***************************************************************************)
InitUD ==
    /\ pc = "scan"
    /\ oldText \in Texts
    /\ newText \in Texts
    /\ i = 0
    /\ j = 0
    /\ hunks = << >>
    /\ hunkSrc = << >>
    /\ diff = EmptyStr
    /\ originalText = EmptyStr
    /\ driftPos = -1
    /\ hunkList = Unused
    /\ k = 0
    /\ result = EmptyStr
    /\ error = NoError
    /\ changes = << >>
    /\ hasContentChange = FALSE
    /\ callContent = EmptyStr
    /\ callHunk = EmptyStr
    /\ callBefore = << >>
    /\ callAfter = << >>
    /\ returned = Unused
    /\ genTotal = 0
    /\ genPre = 0
    /\ lockPc = Unused
    /\ awaitedLock = Unused
    /\ generationLocks = 0
    /\ resolvedLocks = {}
    /\ savePc = Unused
    /\ saveMapping = Unused
    /\ isApplyingChanges = FALSE
    /\ codeMap = 0
    /\ providePc = Unused
    /\ genPc = Unused
    /\ generatingContent = FALSE
    /\ cachedPseudocode = FALSE
    /\ immediates = << >>

\* one iteration of the outer loop of calculateUnifiedDiff
UDIteration ==
    LET oldLines == split(oldText, <<NL>>)
        newLines == split(newText, <<NL>>)
    IN /\ pc = "scan"
       /\ i < Len(oldLines) \/ j < Len(newLines)
       /\ LET it == unifiedDiffIteration(oldLines, newLines, i, j)
          IN /\ i' = it.i
             /\ j' = it.j
             /\ hunks' = hunks \o [n \in 1..Len(it.pushed) |->
                                      hunkText(it.pushed[n])]
             /\ hunkSrc' = hunkSrc \o it.pushed
       /\ UNCHANGED <<pc, oldText, newText, diff, originalText, driftPos,
                      hunkList, k, result, error,
                      changes, hasContentChange,
                      tierVars,
                      lockVars,
                      saveVars,
                      provideVars>>

\* the loop ends and hunks is returned
UDReturn ==
    /\ pc = "scan"
    /\ ~(i < Len(split(oldText, <<NL>>)) \/ j < Len(split(newText, <<NL>>)))
    /\ pc' = "returned"
    /\ UNCHANGED <<oldText, newText, i, j, hunks, hunkSrc, diff, originalText,
                   driftPos, hunkList, k, result, error,
                   changes, hasContentChange,
                   tierVars,
                   lockVars,
                   saveVars,
                   provideVars>>

NextUD == UDIteration \/ UDReturn

SpecUD == InitUD /\ [][NextUD]_vars

(***************************************************************************)
(* SpecDiff: either diff computer, calculateInternalDiff (followed by      *)
(* applyDiff) or calculateUnifiedDiff, on the same inputs.                 *)
(***************************************************************************)
InitDiff == InitDC \/ InitUD

NextDiff == NextDC \/ NextUD

SpecDiff == InitDiff /\ [][NextDiff]_vars

----------------------------------------------------------------------------
(***************************************************************************)
(* DiffUtils (tiered applier).  A value a function returns is a record:    *)
(* Str(s) for a string, Null for null; Throws(e) stands for the function   *)
(* leaving by throwing e.                                                  *)
(***************************************************************************)
Null == [kind |-> "null"]
Str(s) == [kind |-> "string", value |-> s]
Throws(e) == [kind |-> "throw", error |-> e]

\* new SearchTextNotUnique(text)
SearchTextNotUnique(text) == [name |-> "SearchTextNotUnique", text |-> text]

\* new HunkApplyError('Failed to apply hunk', hunk, 'file')
HunkApplyError(hunk) == [name |-> "HunkApplyError", hunk |-> hunk]

\* line.startsWith('@@')
isHeader(line) == startsWith(line, <<"@", "@">>)

\* findDiffHunks, the loop over lines (n is the zero-based index i)
RECURSIVE findDiffHunksLoop(_, _, _)
findDiffHunksLoop(lines, n, st) ==
    IF n >= Len(lines) THEN st
    ELSE LET line == lines[n + 1]
             \* lines 131-137
             s1 == IF isHeader(line)
                   THEN [hunks |-> IF Len(st.currentHunk) > 0
                                   THEN Append(st.hunks,
                                               join(st.currentHunk, <<NL>>))
                                   ELSE st.hunks,
                         currentHunk |-> IF Len(st.currentHunk) > 0
                                         THEN << >> ELSE st.currentHunk,
                         inHunk |-> TRUE]
                   ELSE st
             \* lines 139-141
             s2 == IF s1.inHunk
                   THEN [s1 EXCEPT !.currentHunk = Append(@, line)]
                   ELSE s1
             \* lines 143-147
             s3 == IF s2.inHunk /\ n < Len(lines) - 1 /\ isHeader(lines[n + 2])
                   THEN [hunks |-> Append(s2.hunks,
                                          join(s2.currentHunk, <<NL>>)),
                         currentHunk |-> << >>,
                         inHunk |-> FALSE]
                   ELSE s2
         IN findDiffHunksLoop(lines, n + 1, s3)

\* findDiffHunks collecting lines from the first line on (inHunk starts
\* true), so that lines before the first '@@' line form a hunk
findDiffHunksFromStart(diffText) ==
    LET st == findDiffHunksLoop(split(diffText, <<NL>>), 0,
                 [hunks |-> << >>, currentHunk |-> << >>, inHunk |-> TRUE])
    IN IF Len(st.currentHunk) > 0
       THEN Append(st.hunks, join(st.currentHunk, <<NL>>))
       ELSE st.hunks

findDiffHunks(diffText) ==
    LET st == findDiffHunksLoop(split(diffText, <<NL>>), 0,
                 [hunks |-> << >>, currentHunk |-> << >>, inHunk |-> FALSE])
    IN IF Len(st.currentHunk) > 0
       THEN Append(st.hunks, join(st.currentHunk, <<NL>>))
       ELSE st.hunks

\* hunkToBeforeAfter, the loop over the hunk's lines
RECURSIVE beforeAfterLoop(_, _)
beforeAfterLoop(lines, ba) ==
    IF Len(lines) = 0 THEN ba
    ELSE LET line == Head(lines) IN
         IF Len(line) = 0 \/ isHeader(line)
         THEN beforeAfterLoop(Tail(lines), ba)
         ELSE LET op == line[1]
                  content == SliceFrom(line, 1)
              IN beforeAfterLoop(Tail(lines),
                    IF op = " "
                    THEN [before |-> Append(ba.before, content),
                          after |-> Append(ba.after, content)]
                    ELSE IF op = "-"
                    THEN [ba EXCEPT !.before = Append(@, content)]
                    ELSE IF op = "+"
                    THEN [ba EXCEPT !.after = Append(@, content)]
                    ELSE ba)

\* hunkToBeforeAfter with an unmarked line taken as a context line
RECURSIVE beforeAfterLenientLoop(_, _)
beforeAfterLenientLoop(lines, ba) ==
    IF Len(lines) = 0 THEN ba
    ELSE LET line == Head(lines) IN
         IF Len(line) = 0 \/ isHeader(line)
         THEN beforeAfterLenientLoop(Tail(lines), ba)
         ELSE LET op == line[1]
                  content == SliceFrom(line, 1)
              IN beforeAfterLenientLoop(Tail(lines),
                    IF op = "-"
                    THEN [ba EXCEPT !.before = Append(@, content)]
                    ELSE IF op = "+"
                    THEN [ba EXCEPT !.after = Append(@, content)]
                    ELSE [before |-> Append(ba.before, content),
                          after |-> Append(ba.after, content)])

hunkToBeforeAfterLenient(hunk) ==
    beforeAfterLenientLoop(split(hunk, <<NL>>),
                           [before |-> << >>, after |-> << >>])

hunkToBeforeAfter(hunk) ==
    beforeAfterLoop(split(hunk, <<NL>>), [before |-> << >>, after |-> << >>])

\* searchAndReplace that keeps only the piece before the match
searchAndReplaceDropsSuffix(content, search, replace) ==
    LET matches == split(content, search) IN
    IF Len(matches) = 1 THEN Str(EmptyStr)
    ELSE IF Len(matches) > 2 THEN Throws(SearchTextNotUnique(search))
    ELSE Str(matches[1] \o replace)

\* searchAndReplace: '' when there is no match, throws when there are
\* several, the spliced text when there is one
searchAndReplace(content, search, replace) ==
    LET matches == split(content, search) IN
    IF Len(matches) = 1 THEN Str(EmptyStr)
    ELSE IF Len(matches) > 2 THEN Throws(SearchTextNotUnique(search))
    ELSE Str(join(matches, replace))

\* directlyApplyHunk without the test for an empty trimmed before-text;
\* searchAndReplace is the one defined below it in the class
directlyApplyHunkNoEmptyCheck(content, before, after) ==
    LET trimmedBefore == trim(before)
        trimmedAfter == trim(after)
        matches == split(content, trimmedBefore)
    IN IF Len(trimmedBefore) < 10 /\ Len(matches) > 2 THEN Null
       ELSE IF Len(matches) = 1 THEN Str(EmptyStr)
       ELSE IF Len(matches) > 2 THEN Null
       ELSE Str(join(matches, trimmedAfter))

\* directlyApplyHunk (before and after are the joined strings)
directlyApplyHunk(content, before, after) ==
    LET trimmedBefore == trim(before)
        trimmedAfter == trim(after)
    IN IF Len(trimmedBefore) = 0 THEN Null
       ELSE IF Len(trimmedBefore) < 10
               /\ Len(split(content, trimmedBefore)) > 2 THEN Null
       ELSE LET r == searchAndReplace(content, trimmedBefore, trimmedAfter)
            IN IF r.kind = "throw"
               THEN (IF r.error.name = "SearchTextNotUnique" THEN Null ELSE r)
               ELSE r

\* getContextSizes: the pairs in the order the generator yields them
RECURSIVE contextSizesFrom(_, _)
contextSizesFrom(total, pre) ==
    IF total < 0 THEN << >>
    ELSE IF pre < 0 THEN contextSizesFrom(total - 1, total - 1)
    ELSE <<[preContext |-> pre, postContext |-> total - pre]>>
         \o contextSizesFrom(total, pre - 1)

getContextSizes(lines) ==
    LET maxContext == Min(5, Len(lines))
    IN contextSizesFrom(maxContext, maxContext)

\* Array.prototype.slice(-n): the last n elements; slice(-0) is slice(0)
sliceLast(arr, n) ==
    IF n = 0 THEN arr ELSE SubSeq(arr, Max(1, Len(arr) - n + 1), Len(arr))

\* Array.prototype.slice(0, n)
sliceFirst(arr, n) == SubSeq(arr, 1, Min(n, Len(arr)))

\* flexibleApplyHunk, the loop over the context sizes
RECURSIVE flexibleLoop(_, _, _, _)
flexibleLoop(content, before, after, sizes) ==
    IF Len(sizes) = 0 THEN Null
    ELSE LET beforeText == trim(join(sliceLast(before, Head(sizes).preContext),
                                     <<NL>>))
             afterText == trim(join(sliceFirst(before, Head(sizes).postContext),
                                    <<NL>>))
             r == searchAndReplace(content, beforeText, afterText)
         IN IF r.kind = "throw"
            THEN (IF r.error.name = "SearchTextNotUnique"
                  THEN flexibleLoop(content, before, after, Tail(sizes))
                  ELSE r)
            ELSE IF r # Null THEN r
            ELSE flexibleLoop(content, before, after, Tail(sizes))

flexibleApplyHunk(content, before, after) ==
    flexibleLoop(content, before, after, getContextSizes(before))

\* applyHunk
applyHunk(content, hunk) ==
    LET ba == hunkToBeforeAfter(hunk)
        directResult == directlyApplyHunk(content, join(ba.before, <<NL>>),
                                          join(ba.after, <<NL>>))
    IN IF directResult # Null THEN directResult
       ELSE flexibleApplyHunk(content, ba.before, ba.after)

\* applyUnifiedDiff, the loop over the hunks (n hunks applied so far)
RECURSIVE applyHunksFrom(_, _, _)
applyHunksFrom(content, hunkSeq, n) ==
    IF n >= Len(hunkSeq) THEN Str(content)
    ELSE LET newContent == applyHunk(content, hunkSeq[n + 1])
         IN IF newContent = Null
            THEN [kind |-> "throw", error |-> HunkApplyError(hunkSeq[n + 1]),
                  failedAt |-> n]
            ELSE IF newContent.kind = "throw"
            THEN [kind |-> "throw", error |-> newContent.error, failedAt |-> n]
            ELSE applyHunksFrom(newContent.value, hunkSeq, n + 1)

\* applyUnifiedDiff as a function of its arguments
applyUnifiedDiff(text, unifiedDiff) ==
    IF Len(trim(unifiedDiff)) = 0 THEN Str(text)
    ELSE applyHunksFrom(text, findDiffHunks(unifiedDiff), 0)

(***************************************************************************)
(* SpecDU: DiffUtils.applyUnifiedDiff(originalText, diff).                 *)
(***************************************************************************)
LineLong == <<"a", "a", "a", "a", "a", "a", "a", "a", "a", "a">>
BaseLines == {LineLong, LineB}
BaseTexts == {join(ls, <<NL>>) : ls \in SeqsUpTo(BaseLines, MaxBaseLines)}

Header == <<"@", "@">>
DiffLineSet ==
    { Header, <<" ">> \o LineLong, <<"-">> \o LineLong, <<"-">> \o LineB,
      <<"+">> \o LineB, <<"x">> \o LineB, EmptyStr }
DiffTexts ==
    {join(ls, <<NL>>) :
        ls \in UNION {[1..m -> DiffLineSet] : m \in 0..MaxDiffLines}}

InitDU ==
    /\ pc = "call"
    /\ oldText = EmptyStr
    /\ newText = EmptyStr
    /\ i = 0
    /\ j = 0
    /\ hunks = << >>
    /\ hunkSrc = Unused
    /\ diff \in DiffTexts
    /\ originalText \in BaseTexts
    /\ driftPos = -1
    /\ hunkList = << >>
    /\ k = 0
    /\ result = EmptyStr
    /\ error = NoError
    /\ changes = << >>
    /\ hasContentChange = FALSE
    /\ callContent = EmptyStr
    /\ callHunk = EmptyStr
    /\ callBefore = << >>
    /\ callAfter = << >>
    /\ returned = Unused
    /\ genTotal = 0
    /\ genPre = 0
    /\ lockPc = Unused
    /\ awaitedLock = Unused
    /\ generationLocks = 0
    /\ resolvedLocks = {}
    /\ savePc = Unused
    /\ saveMapping = Unused
    /\ isApplyingChanges = FALSE
    /\ codeMap = 0
    /\ providePc = Unused
    /\ genPc = Unused
    /\ generatingContent = FALSE
    /\ cachedPseudocode = FALSE
    /\ immediates = << >>

\* DUBegin returning the diff argument instead of the base for a blank diff
DUBeginReturnsDiff ==
    /\ pc = "call"
    /\ IF Len(trim(diff)) = 0
       THEN /\ pc' = "returned"
            /\ result' = diff
            /\ UNCHANGED hunkList
       ELSE /\ pc' = "loop"
            /\ result' = originalText
            /\ hunkList' = findDiffHunks(diff)
    /\ UNCHANGED <<oldText, newText, i, j, hunks, hunkSrc, diff, originalText,
                   driftPos, k, error,
                   changes, hasContentChange,
                   tierVars,
                   lockVars,
                   saveVars,
                   provideVars>>

\* lines 89-95: the empty-diff guard, findDiffHunks, result = originalText
DUBegin ==
    /\ pc = "call"
    /\ result' = originalText
    /\ IF Len(trim(diff)) = 0
       THEN /\ pc' = "returned"
            /\ UNCHANGED hunkList
       ELSE /\ pc' = "loop"
            /\ hunkList' = findDiffHunks(diff)
    /\ UNCHANGED <<oldText, newText, i, j, hunks, hunkSrc, diff, originalText,
                   driftPos, k, error,
                   changes, hasContentChange,
                   tierVars,
                   lockVars,
                   saveVars,
                   provideVars>>

\* DUApplyHunk swallowing a failed hunk: the base text is returned instead
\* of throwing (as the superseded applier of part_005:26-29 did)
DUApplyHunkSwallows ==
    /\ pc = "loop"
    /\ k < Len(hunkList)
    /\ LET hunk == hunkList[k + 1]
           newContent == applyHunk(result, hunk)
       IN IF newContent = Null
          THEN /\ result' = originalText
               /\ pc' = "returned"
               /\ UNCHANGED <<error, k>>
          ELSE IF newContent.kind = "throw"
          THEN /\ error' = newContent.error
               /\ pc' = "thrown"
               /\ UNCHANGED <<result, k>>
          ELSE /\ result' = newContent.value
               /\ k' = k + 1
               /\ UNCHANGED <<pc, error>>
    /\ UNCHANGED <<oldText, newText, i, j, hunks, hunkSrc, diff, originalText,
                   driftPos, hunkList,
                   changes, hasContentChange,
                   tierVars,
                   lockVars,
                   saveVars,
                   provideVars>>

\* DUApplyHunk matching every hunk against the original base instead of
\* the text the earlier hunks produced
DUApplyHunkOnBase ==
    /\ pc = "loop"
    /\ k < Len(hunkList)
    /\ LET hunk == hunkList[k + 1]
           newContent == applyHunk(originalText, hunk)
       IN IF newContent = Null
          THEN /\ error' = HunkApplyError(hunk)
               /\ pc' = "thrown"
               /\ UNCHANGED <<result, k>>
          ELSE IF newContent.kind = "throw"
          THEN /\ error' = newContent.error
               /\ pc' = "thrown"
               /\ UNCHANGED <<result, k>>
          ELSE /\ result' = newContent.value
               /\ k' = k + 1
               /\ UNCHANGED <<pc, error>>
    /\ UNCHANGED <<oldText, newText, i, j, hunks, hunkSrc, diff, originalText,
                   driftPos, hunkList,
                   changes, hasContentChange,
                   tierVars,
                   lockVars,
                   saveVars,
                   provideVars>>

\* lines 97-107 and 110-113: one iteration of the loop over the hunks; a
\* DiffError leaves applyUnifiedDiff through the catch block's rethrow
DUApplyHunk ==
    /\ pc = "loop"
    /\ k < Len(hunkList)
    /\ LET hunk == hunkList[k + 1]
           newContent == applyHunk(result, hunk)
       IN IF newContent = Null
          THEN /\ error' = HunkApplyError(hunk)
               /\ pc' = "thrown"
               /\ UNCHANGED <<result, k>>
          ELSE IF newContent.kind = "throw"
          THEN /\ error' = newContent.error
               /\ pc' = "thrown"
               /\ UNCHANGED <<result, k>>
          ELSE /\ result' = newContent.value
               /\ k' = k + 1
               /\ UNCHANGED <<pc, error>>
    /\ UNCHANGED <<oldText, newText, i, j, hunks, hunkSrc, diff, originalText,
                   driftPos, hunkList,
                   changes, hasContentChange,
                   tierVars,
                   lockVars,
                   saveVars,
                   provideVars>>

\* line 109: return result
DUReturn ==
    /\ pc = "loop"
    /\ k = Len(hunkList)
    /\ pc' = "returned"
    /\ UNCHANGED <<oldText, newText, i, j, hunks, hunkSrc, diff, originalText,
                   driftPos, hunkList, k, result, error,
                   changes, hasContentChange,
                   tierVars,
                   lockVars,
                   saveVars,
                   provideVars>>

NextDU == DUBegin \/ DUApplyHunk \/ DUReturn

SpecDU == InitDU /\ [][NextDU]_vars

(***************************************************************************)
(* SpecDP: DiffUtils.applyUnifiedDiff on diffs made of '@@' lines and      *)
(* lines with a ' ', '-' or '+' prefix only, with and without a leading    *)
(* '@@' line and with several hunks.                                       *)
(***************************************************************************)
MaxPlainDiffLines == 4

PlainDiffLineSet ==
    { Header, <<" ">> \o LineLong, <<"-">> \o LineLong, <<"-">> \o LineB,
      <<"+">> \o LineB }
PlainDiffTexts ==
    {join(ls, <<NL>>) : ls \in SeqsUpTo(PlainDiffLineSet, MaxPlainDiffLines)}

InitDP ==
    /\ pc = "call"
    /\ oldText = EmptyStr
    /\ newText = EmptyStr
    /\ i = 0
    /\ j = 0
    /\ hunks = << >>
    /\ hunkSrc = Unused
    /\ diff \in PlainDiffTexts
    /\ originalText \in BaseTexts
    /\ driftPos = -1
    /\ hunkList = << >>
    /\ k = 0
    /\ result = EmptyStr
    /\ error = NoError
    /\ changes = << >>
    /\ hasContentChange = FALSE
    /\ callContent = EmptyStr
    /\ callHunk = EmptyStr
    /\ callBefore = << >>
    /\ callAfter = << >>
    /\ returned = Unused
    /\ genTotal = 0
    /\ genPre = 0
    /\ lockPc = Unused
    /\ awaitedLock = Unused
    /\ generationLocks = 0
    /\ resolvedLocks = {}
    /\ savePc = Unused
    /\ saveMapping = Unused
    /\ isApplyingChanges = FALSE
    /\ codeMap = 0
    /\ providePc = Unused
    /\ genPc = Unused
    /\ generatingContent = FALSE
    /\ cachedPseudocode = FALSE
    /\ immediates = << >>

SpecDP == InitDP /\ [][NextDU]_vars

(***************************************************************************)
(* SpecTier: the functions below applyHunk, each called once on a text and *)
(* a callHunk: searchAndReplace and directlyApplyHunk as applyHunk's direct    *)
(* tier calls them, flexibleApplyHunk, and applyHunk itself.               *)
(***************************************************************************)
MaxTierHunkLines == 3

TierHunkLineSet ==
    { <<" ">> \o LineLong, <<"-">> \o LineLong, <<"-">> \o LineB,
      <<"+">> \o LineX }
TierHunks ==
    {join(<<Header>> \o ls, <<NL>>) :
        ls \in UNION {[1..m -> TierHunkLineSet] : m \in 0..MaxTierHunkLines}}

\* applyHunk is entered and has split the hunk into its two views (line 161)
InitTier ==
    /\ pc = "applyHunk"
    /\ callContent \in BaseTexts
    /\ callHunk \in TierHunks
    /\ callBefore = hunkToBeforeAfter(callHunk).before
    /\ callAfter = hunkToBeforeAfter(callHunk).after
    /\ returned = Unused
    /\ genTotal = 0
    /\ genPre = 0
    /\ oldText = EmptyStr
    /\ newText = EmptyStr
    /\ i = 0
    /\ j = 0
    /\ hunks = << >>
    /\ hunkSrc = Unused
    /\ diff = EmptyStr
    /\ originalText = EmptyStr
    /\ driftPos = -1
    /\ hunkList = Unused
    /\ k = 0
    /\ result = EmptyStr
    /\ error = NoError
    /\ changes = << >>
    /\ hasContentChange = FALSE
    /\ lockPc = Unused
    /\ awaitedLock = Unused
    /\ generationLocks = 0
    /\ resolvedLocks = {}
    /\ savePc = Unused
    /\ saveMapping = Unused
    /\ isApplyingChanges = FALSE
    /\ codeMap = 0
    /\ providePc = Unused
    /\ genPc = Unused
    /\ generatingContent = FALSE
    /\ cachedPseudocode = FALSE
    /\ immediates = << >>

\* line 217: this.searchAndReplace(content, trimmedBefore, trimmedAfter)
CallSearchAndReplace ==
    /\ pc = "applyHunk"
    /\ returned' = searchAndReplace(callContent,
                                    trim(join(callBefore, <<NL>>)),
                                    trim(join(callAfter, <<NL>>)))
    /\ pc' = "searchAndReplace"
    /\ UNCHANGED <<oldText, newText, i, j, hunks, hunkSrc, diff, originalText,
                   driftPos, hunkList, k, result, error, changes,
                   hasContentChange, callContent, callHunk, callBefore,
                   callAfter, genTotal, genPre,
                   lockVars,
                   saveVars,
                   provideVars>>

\* line 164: this.directlyApplyHunk(content, before.join('\n'), after.join('\n'))
CallDirectlyApplyHunk ==
    /\ pc = "applyHunk"
    /\ returned' = directlyApplyHunk(callContent, join(callBefore, <<NL>>),
                                     join(callAfter, <<NL>>))
    /\ pc' = "directlyApplyHunk"
    /\ UNCHANGED <<oldText, newText, i, j, hunks, hunkSrc, diff, originalText,
                   driftPos, hunkList, k, result, error, changes,
                   hasContentChange, callContent, callHunk, callBefore,
                   callAfter, genTotal, genPre,
                   lockVars,
                   saveVars,
                   provideVars>>

\* line 170: this.flexibleApplyHunk(content, before, after)
CallFlexibleApplyHunk ==
    /\ pc = "applyHunk"
    /\ returned' = flexibleApplyHunk(callContent, callBefore, callAfter)
    /\ pc' = "flexibleApplyHunk"
    /\ UNCHANGED <<oldText, newText, i, j, hunks, hunkSrc, diff, originalText,
                   driftPos, hunkList, k, result, error, changes,
                   hasContentChange, callContent, callHunk, callBefore,
                   callAfter, genTotal, genPre,
                   lockVars,
                   saveVars,
                   provideVars>>

\* lines 160-171: applyHunk as a whole
CallApplyHunk ==
    /\ pc = "applyHunk"
    /\ returned' = applyHunk(callContent, callHunk)
    /\ pc' = "applied"
    /\ UNCHANGED <<oldText, newText, i, j, hunks, hunkSrc, diff, originalText,
                   driftPos, hunkList, k, result, error, changes,
                   hasContentChange, callContent, callHunk, callBefore,
                   callAfter, genTotal, genPre,
                   lockVars,
                   saveVars,
                   provideVars>>

NextTier ==
    \/ CallSearchAndReplace \/ CallDirectlyApplyHunk
    \/ CallFlexibleApplyHunk \/ CallApplyHunk

SpecTier == InitTier /\ [][NextTier]_vars

(***************************************************************************)
(* SpecGCS: the generator getContextSizes(lines), one step per yield.      *)
(***************************************************************************)
MaxBeforeLines == 6

\* line 259 and the loop heads of lines 261-262: total = pre = maxContext
InitGCS ==
    /\ pc = "getContextSizes"
    /\ callBefore \in UNION {[1..m -> {LineLong, LineB}] : m \in 0..MaxBeforeLines}
    /\ genTotal = Min(5, Len(callBefore))
    /\ genPre = Min(5, Len(callBefore))
    /\ returned = << >>
    /\ callContent = EmptyStr
    /\ callHunk = EmptyStr
    /\ callAfter = << >>
    /\ oldText = EmptyStr
    /\ newText = EmptyStr
    /\ i = 0
    /\ j = 0
    /\ hunks = << >>
    /\ hunkSrc = Unused
    /\ diff = EmptyStr
    /\ originalText = EmptyStr
    /\ driftPos = -1
    /\ hunkList = Unused
    /\ k = 0
    /\ result = EmptyStr
    /\ error = NoError
    /\ changes = << >>
    /\ hasContentChange = FALSE
    /\ lockPc = Unused
    /\ awaitedLock = Unused
    /\ generationLocks = 0
    /\ resolvedLocks = {}
    /\ savePc = Unused
    /\ saveMapping = Unused
    /\ isApplyingChanges = FALSE
    /\ codeMap = 0
    /\ providePc = Unused
    /\ genPc = Unused
    /\ generatingContent = FALSE
    /\ cachedPseudocode = FALSE
    /\ immediates = << >>

\* GCSYield with the two sizes swapped: postContext counts down first
GCSYieldSwapped ==
    /\ pc = "getContextSizes"
    /\ genTotal >= 0
    /\ returned' = Append(returned,
                          [preContext |-> genTotal - genPre,
                           postContext |-> genPre])
    /\ IF genPre > 0
       THEN genPre' = genPre - 1 /\ genTotal' = genTotal
       ELSE genPre' = genTotal - 1 /\ genTotal' = genTotal - 1
    /\ UNCHANGED <<pc, oldText, newText, i, j, hunks, hunkSrc, diff,
                   originalText, driftPos, hunkList, k, result, error, changes,
                   hasContentChange, callContent, callHunk, callBefore,
                   callAfter,
                   lockVars,
                   saveVars,
                   provideVars>>

\* lines 262-265: yield { preContext: pre, postContext: total - pre }, then
\* pre--, and total-- with pre = total when the inner loop ends
GCSYield ==
    /\ pc = "getContextSizes"
    /\ genTotal >= 0
    /\ returned' = Append(returned,
                          [preContext |-> genPre, postContext |-> genTotal - genPre])
    /\ IF genPre > 0
       THEN genPre' = genPre - 1 /\ genTotal' = genTotal
       ELSE genPre' = genTotal - 1 /\ genTotal' = genTotal - 1
    /\ UNCHANGED <<pc, oldText, newText, i, j, hunks, hunkSrc, diff,
                   originalText, driftPos, hunkList, k, result, error, changes,
                   hasContentChange, callContent, callHunk, callBefore, callAfter,
                   lockVars,
                   saveVars,
                   provideVars>>

\* line 261: total < 0, the generator is exhausted
GCSDone ==
    /\ pc = "getContextSizes"
    /\ genTotal < 0
    /\ pc' = "exhausted"
    /\ UNCHANGED <<oldText, newText, i, j, hunks, hunkSrc, diff, originalText,
                   driftPos, hunkList, k, result, error, changes,
                   hasContentChange, callContent, callHunk, callBefore,
                   callAfter, returned,
                   genTotal, genPre,
                   lockVars,
                   saveVars,
                   provideVars>>

NextGCS == GCSYield \/ GCSDone

SpecGCS == InitGCS /\ [][NextGCS]_vars

(***************************************************************************)
(* SpecDrift: DiffUtils.applyUnifiedDiff on a base that drifted.  A diff   *)
(* of one hunk is made against oldText: it replaces one line and carries   *)
(* every other line as context.  Before it is applied, one of the context  *)
(* lines of the base may have changed.                                     *)
(***************************************************************************)
MaxDriftLines == 3

DriftLines == {LineLong, LineB}

\* the hunk that replaces line r of ls by added, all other lines as context
hunkAround(ls, r, added) ==
    join(<<Header>>
            \o [n \in 1..(r - 1) |-> <<" ">> \o ls[n]]
            \o <<(<<"-">> \o ls[r]), (<<"+">> \o added)>>
            \o [n \in 1..(Len(ls) - r) |-> <<" ">> \o ls[r + n]],
         <<NL>>)

InitDrift ==
    \E ls \in SeqsUpTo(DriftLines, MaxDriftLines) :
      \E r \in 1..Len(ls) :
        \E d \in (0..Len(ls)) \ {r} :
          /\ pc = "call"
          /\ oldText = join(ls, <<NL>>)
          /\ newText = join([ls EXCEPT ![r] = LineA], <<NL>>)
          /\ diff = hunkAround(ls, r, LineA)
          /\ originalText = IF d = 0 THEN join(ls, <<NL>>)
                            ELSE join([ls EXCEPT ![d] = LineX], <<NL>>)
          /\ driftPos = d - 1
          /\ i = 0
          /\ j = 0
          /\ hunks = << >>
          /\ hunkSrc = Unused
          /\ hunkList = << >>
          /\ k = 0
          /\ result = EmptyStr
          /\ error = NoError
          /\ changes = << >>
          /\ hasContentChange = FALSE
          /\ callContent = EmptyStr
          /\ callHunk = EmptyStr
          /\ callBefore = << >>
          /\ callAfter = << >>
          /\ returned = Unused
          /\ genTotal = 0
          /\ genPre = 0
          /\ lockPc = Unused
          /\ awaitedLock = Unused
          /\ generationLocks = 0
          /\ resolvedLocks = {}
          /\ savePc = Unused
          /\ saveMapping = Unused
          /\ isApplyingChanges = FALSE
          /\ codeMap = 0
          /\ providePc = Unused
          /\ genPc = Unused
          /\ generatingContent = FALSE
          /\ cachedPseudocode = FALSE
          /\ immediates = << >>

SpecDrift == InitDrift /\ [][NextDU]_vars

(***************************************************************************)
(* src/utils/embeddingUtils.ts, TextProcessor.extractChanges (the same     *)
(* code is in part_002): the positional line comparison.                   *)
(***************************************************************************)
MaxECLines == 3

\* lines[n] || '' (n zero-based): '' for a missing line and for an empty one
lineOrEmpty(lines, n) ==
    IF n < Len(lines) /\ Len(lines[n + 1]) > 0 THEN lines[n + 1] ELSE EmptyStr

\* { type, content, lineNumber }
CodeChange(type, content, lineNumber) ==
    [type |-> type, content |-> content, lineNumber |-> lineNumber]

\* the loop body with the flag set only in the 'modify' branch
extractChangesIterationFlagOnModify(oldLines, newLines, n, st) ==
    LET oldLine == lineOrEmpty(oldLines, n)
        newLine == lineOrEmpty(newLines, n)
    IN IF oldLine = newLine THEN st
       ELSE IF Len(oldLine) = 0
       THEN [st EXCEPT !.changes = Append(@, CodeChange("add", newLine, n + 1))]
       ELSE IF Len(newLine) = 0
       THEN [st EXCEPT !.changes = Append(@, CodeChange("delete", oldLine, n + 1))]
       ELSE [changes |-> Append(st.changes, CodeChange("modify", newLine, n + 1)),
             hasContentChange |-> TRUE]

\* lines 330-354: the loop body for position n (the zero-based i)
extractChangesIteration(oldLines, newLines, n, st) ==
    LET oldLine == lineOrEmpty(oldLines, n)
        newLine == lineOrEmpty(newLines, n)
    IN IF oldLine = newLine THEN st
       ELSE [changes |->
                Append(st.changes,
                       IF Len(oldLine) = 0
                       THEN CodeChange("add", newLine, n + 1)
                       ELSE IF Len(newLine) = 0
                       THEN CodeChange("delete", oldLine, n + 1)
                       ELSE CodeChange("modify", newLine, n + 1)),
             hasContentChange |-> TRUE]

(***************************************************************************)
(* SpecEC: extractChanges(oldText, newText).                               *)
(***************************************************************************)
ECLines == {EmptyStr, LineA, LineB}
ECTexts == {join(ls, <<NL>>) : ls \in SeqsUpTo(ECLines, MaxECLines)}

\* lines 321-328: changes = [], hasContentChange = false, i = 0
InitEC ==
    /\ pc = "compare"
    /\ oldText \in ECTexts
    /\ newText \in ECTexts
    /\ i = 0
    /\ changes = << >>
    /\ hasContentChange = FALSE
    /\ j = 0
    /\ hunks = << >>
    /\ hunkSrc = Unused
    /\ diff = EmptyStr
    /\ originalText = EmptyStr
    /\ driftPos = -1
    /\ hunkList = Unused
    /\ k = 0
    /\ result = EmptyStr
    /\ error = NoError
    /\ callContent = EmptyStr
    /\ callHunk = EmptyStr
    /\ callBefore = << >>
    /\ callAfter = << >>
    /\ returned = Unused
    /\ genTotal = 0
    /\ genPre = 0
    /\ lockPc = Unused
    /\ awaitedLock = Unused
    /\ generationLocks = 0
    /\ resolvedLocks = {}
    /\ savePc = Unused
    /\ saveMapping = Unused
    /\ isApplyingChanges = FALSE
    /\ codeMap = 0
    /\ providePc = Unused
    /\ genPc = Unused
    /\ generatingContent = FALSE
    /\ cachedPseudocode = FALSE
    /\ immediates = << >>

\* lines 329-355: one iteration of the for loop
ECIteration ==
    LET oldLines == split(oldText, <<NL>>)
        newLines == split(newText, <<NL>>)
        maxLines == Max(Len(oldLines), Len(newLines))
        st == extractChangesIteration(oldLines, newLines, i,
                 [changes |-> changes, hasContentChange |-> hasContentChange])
    IN /\ pc = "compare"
       /\ i < maxLines
       /\ changes' = st.changes
       /\ hasContentChange' = st.hasContentChange
       /\ i' = i + 1
       /\ UNCHANGED <<pc, oldText, newText, j, hunks, hunkSrc, diff,
                      originalText, driftPos, hunkList, k, result, error,
                      tierVars,
                      lockVars,
                      saveVars,
                      provideVars>>

\* line 357: return { changes, hasContentChange }
ECReturn ==
    LET oldLines == split(oldText, <<NL>>)
        newLines == split(newText, <<NL>>)
    IN /\ pc = "compare"
       /\ i >= Max(Len(oldLines), Len(newLines))
       /\ pc' = "extracted"
       /\ UNCHANGED <<oldText, newText, i, j, hunks, hunkSrc, diff,
                      originalText, driftPos, hunkList, k, result, error,
                      changes, hasContentChange,
                      tierVars,
                      lockVars,
                      saveVars,
                      provideVars>>

NextEC == ECIteration \/ ECReturn

SpecEC == InitEC /\ [][NextEC]_vars

----------------------------------------------------------------------------
(***************************************************************************)
(* Claims about calculateInternalDiff / applyDiff (checked under SpecDC).  *)
(***************************************************************************)
oldLinesOf == split(oldText, <<NL>>)
newLinesOf == split(newText, <<NL>>)

\* zero-based index of the first line position at which the two line
\* sequences differ (the shorter length if one is a prefix of the other)
RECURSIVE firstDifference(_, _, _)
firstDifference(a, b, n) ==
    IF n < Len(a) /\ n < Len(b) /\ a[n + 1] = b[n + 1]
    THEN firstDifference(a, b, n + 1) ELSE n

\* C1: round trip.  Applying the diff computed from oldText to newText back
\* onto oldText (no drift) yields exactly newText.
C1_RoundTrip ==
    (pc = "done" /\ driftPos = -1) => result = newText

\* C2: no-op idempotence.  Diffing a text against itself and applying the
\* result onto it leaves the text unchanged.
C2_NoOpIdempotence ==
    (pc = "done" /\ driftPos = -1 /\ oldText = newText) => result = oldText

\* the unrelated line was inserted before the first changed line and more
\* than 3 lines away from it
InsertedFarBeforeChange ==
    /\ driftPos >= 0
    /\ oldText # newText
    /\ firstDifference(oldLinesOf, newLinesOf, 0) - driftPos > contextLines

\* C3: drift tolerance.  With one unrelated line inserted far before the
\* first changed line, applyDiff returns newText with that same line
\* inserted at the same position.
C3_DriftTolerance ==
    (pc = "done" /\ InsertedFarBeforeChange)
        => result = join(insertLine(newLinesOf, driftPos, LineX), <<NL>>)

----------------------------------------------------------------------------
(***************************************************************************)
(* Claims about calculateUnifiedDiff (checked under SpecUD).               *)
(***************************************************************************)
\* the positions of oldLines a hunk covers as context or removed line
Covered(h) == {h[n].old : n \in {m \in 1..Len(h) : h[m].op \in {" ", "-"}}}

\* the positions of oldLines a hunk reports as removed
Removed(h) == {h[n].old : n \in {m \in 1..Len(h) : h[m].op = "-"}}

SetMin(S) == CHOOSE x \in S : \A y \in S : x <= y

\* C9: hunk ordering.  The returned hunks are strictly ordered by start
\* position in oldText and no line position of oldText is covered (as
\* context or removed line) by two different hunks.
C9_HunkOrdering ==
    pc = "returned" =>
        \A m, n \in 1..Len(hunkSrc) :
            (m < n /\ Covered(hunkSrc[m]) # {} /\ Covered(hunkSrc[n]) # {}) =>
                /\ SetMin(Covered(hunkSrc[m])) < SetMin(Covered(hunkSrc[n]))
                /\ Covered(hunkSrc[m]) \cap Covered(hunkSrc[n]) = {}

\* C10: hunk invariant.  Every context line is a line present, unchanged,
\* in oldText and in newText at the hunk's position, every '-' line is a
\* line of oldText, every '+' line a line of newText, and a line an earlier
\* hunk reported as removed is never the context of a later hunk.
C10_HunkInvariant ==
    pc = "returned" =>
        \A n \in 1..Len(hunkSrc) : \A c \in 1..Len(hunkSrc[n]) :
            LET e == hunkSrc[n][c]
                text == SliceFrom(e.line, 1)
            IN /\ e.op = "-" => (e.old \in 0..(Len(oldLinesOf) - 1)
                                 /\ oldLinesOf[e.old + 1] = text)
               /\ e.op = "+" => (e.new \in 0..(Len(newLinesOf) - 1)
                                 /\ newLinesOf[e.new + 1] = text)
               /\ e.op = " " =>
                     /\ e.old \in 0..(Len(oldLinesOf) - 1)
                     /\ e.new \in 0..(Len(newLinesOf) - 1)
                     /\ oldLinesOf[e.old + 1] = text
                     /\ newLinesOf[e.new + 1] = text
                     /\ \A m \in 1..(n - 1) : e.old \notin Removed(hunkSrc[m])

----------------------------------------------------------------------------
(***************************************************************************)
(* Claims about DiffUtils.applyUnifiedDiff (checked under SpecDU).         *)
(***************************************************************************)
\* the anchor of a hunk: its context and removed lines, joined and trimmed
anchorOf(hunk) == trim(join(hunkToBeforeAfter(hunk).before, <<NL>>))

\* number of (non-overlapping) occurrences of a non-empty string in content
occurrences(content, search) == Len(split(content, search)) - 1

\* the loop is about to apply a hunk
AtHunk == pc = "loop" /\ k < Len(hunkList)

\* C4: ambiguity detection.  When the anchor of the hunk being applied
\* occurs two or more times in the current text, applyUnifiedDiff fails
\* with SearchTextNotUnique: it takes no other step.
C4_AmbiguityDetection ==
    [][(/\ AtHunk
        /\ Len(anchorOf(hunkList[k + 1])) > 0
        /\ occurrences(result, anchorOf(hunkList[k + 1])) >= 2)
       => (pc' = "thrown" /\ error'.name = "SearchTextNotUnique")]_vars

\* C5: absent anchor.  When the anchor of the hunk being applied occurs
\* nowhere in the current text, no tier matches and applyUnifiedDiff fails
\* with HunkApplyError; the hunk never yields a text.
C5_AbsentAnchorFails ==
    [][(/\ AtHunk
        /\ Len(anchorOf(hunkList[k + 1])) > 0
        /\ occurrences(result, anchorOf(hunkList[k + 1])) = 0)
       => (pc' = "thrown" /\ error'.name = "HunkApplyError")]_vars

\* C6: HunkApplyError is propagated.  Whenever applyHunk yields null for
\* the hunk at index k, applyUnifiedDiff throws a HunkApplyError carrying
\* that hunk's text, whatever was applied before, and after the throw
\* nothing more happens: no text is returned.
C6_HunkApplyErrorPropagated ==
    [][/\ (AtHunk /\ applyHunk(result, hunkList[k + 1]) = Null)
            => (/\ pc' = "thrown"
                /\ error' = HunkApplyError(hunkList[k + 1]))
       /\ pc # "thrown"]_vars

\* C6 witness: a hunk failed after an earlier hunk had been applied
C6_Witness ==
    /\ pc = "thrown"
    /\ k >= 1
    /\ error = HunkApplyError(hunkList[k + 1])

\* a line of a hunk that carries no marker: not empty, not an @@ line, and
\* starting with none of ' ', '-', '+'
isUnmarked(line) ==
    /\ Len(line) > 0
    /\ ~isHeader(line)
    /\ line[1] \notin {" ", "-", "+"}

\* the diff has an unmarked line inside a hunk (after its first @@ line)
HasUnmarkedHunkLine(diffText) ==
    LET lines == split(diffText, <<NL>>)
    IN \E m, n \in 1..Len(lines) :
          m < n /\ isHeader(lines[m]) /\ isUnmarked(lines[n])

\* the diff without its unmarked lines
stripUnmarked(diffText) ==
    join(SelectSeq(split(diffText, <<NL>>), LAMBDA l : ~isUnmarked(l)), <<NL>>)

C8_EmptyDiffNoOp ==
    (pc = "returned" /\ Len(trim(diff)) = 0) => result = originalText

\* C8 witness: a whitespace-only, non-empty diff was applied
C8_Witness ==
    /\ pc = "returned"
    /\ Len(trim(diff)) = 0
    /\ Len(diff) > 0

----------------------------------------------------------------------------
(***************************************************************************)
(* Further claims about the diff computers (SpecDiff, SpecDC).             *)
(***************************************************************************)
\* the lines of a hunk string that carry the marker op, without the marker
markedLines(hunk, op) ==
    LET ls == SelectSeq(split(hunk, <<NL>>),
                        LAMBDA l : Len(l) > 0 /\ l[1] = op /\ ~isHeader(l))
    IN [n \in 1..Len(ls) |-> SliceFrom(ls[n], 1)]

\* C11: no hunk without a change.  Every hunk either diff computer has
\* pushed holds at least one '-' or '+' line, and two identical texts
\* yield an empty hunk list.
C11_NoHunkWithoutChange ==
    /\ \A n \in 1..Len(hunks) :
          Len(markedLines(hunks[n], "-")) + Len(markedLines(hunks[n], "+")) > 0
    /\ (pc \in {"computed", "returned"} /\ oldText = newText) => hunks = << >>

\* C11 witness: calculateUnifiedDiff returned several hunks
C11_Witness ==
    /\ pc = "returned"
    /\ Len(hunks) >= 2

\* the two texts have the same number of lines and differ at exactly one
\* line position
DifferAtOneLine ==
    /\ Len(oldLinesOf) = Len(newLinesOf)
    /\ Cardinality({n \in 1..Len(oldLinesOf) : oldLinesOf[n] # newLinesOf[n]}) = 1

\* C12: single-line modification.  For two texts of equal line count that
\* differ at exactly one position, calculateInternalDiff returns exactly
\* one hunk; its only '-' line is the old line at that position, its only
\* '+' line the new one, every other line of it is a context line, and
\* applyDiff on the old text yields the new text.
C12_SingleLineModification ==
    (pc = "done" /\ driftPos = -1 /\ DifferAtOneLine) =>
        LET at == CHOOSE n \in 1..Len(oldLinesOf) : oldLinesOf[n] # newLinesOf[n]
            body == Tail(split(hunks[1], <<NL>>))
        IN /\ Len(hunks) = 1
           /\ markedLines(hunks[1], "-") = <<oldLinesOf[at]>>
           /\ markedLines(hunks[1], "+") = <<newLinesOf[at]>>
           /\ \A n \in 1..Len(body) :
                 Len(body[n]) > 0 /\ body[n][1] \in {" ", "-", "+"}
           /\ Len(markedLines(hunks[1], " ")) = Len(oldLinesOf) - 1
           /\ result = newText

\* C12 witness: a text of three lines or more with its middle changed was
\* diffed and patched
C12_Witness ==
    /\ pc = "done"
    /\ driftPos = -1
    /\ DifferAtOneLine
    /\ Len(oldLinesOf) >= 3
    /\ oldLinesOf[2] # newLinesOf[2]

\* C13: trailing-line drift.  With one blank line appended to the old text
\* before the diff of two different texts is applied, applyDiff returns
\* the new text followed by that blank line.
C13_TrailingLineDrift ==
    (pc = "done" /\ oldText # newText /\ originalText = oldText \o <<NL>>)
        => result = newText \o <<NL>>

\* C13 witness: a diff that changes the line count was applied to the old
\* text with a blank line appended
C13_Witness ==
    /\ pc = "done"
    /\ originalText = oldText \o <<NL>>
    /\ Len(oldLinesOf) # Len(newLinesOf)

\* number of leading lines of ls that carry the marker op
RECURSIVE leadingRun(_, _)
leadingRun(ls, op) ==
    IF Len(ls) > 0 /\ Head(ls)[1] = op THEN 1 + leadingRun(Tail(ls), op) ELSE 0

reverse(ls) == [n \in 1..Len(ls) |-> ls[Len(ls) + 1 - n]]

\* C20: context clipping.  In every hunk calculateInternalDiff returns, at
\* most 3 context lines precede the first changed line and at most 3
\* follow the last changed line.
C20_ContextClipping ==
    pc = "computed" =>
        \A n \in 1..Len(hunks) :
            LET body == Tail(split(hunks[n], <<NL>>))
            IN /\ leadingRun(body, " ") <= contextLines
               /\ leadingRun(reverse(body), " ") <= contextLines

----------------------------------------------------------------------------
(***************************************************************************)
(* Further claims about DiffUtils.applyUnifiedDiff (SpecDP).               *)
(***************************************************************************)
\* the text after hunks 1..n of hs were applied one after the other, each
\* to the output of the one before it, starting from text
RECURSIVE applyInOrder(_, _, _)
applyInOrder(text, hs, n) ==
    IF n = 0 THEN Str(text)
    ELSE LET before == applyInOrder(text, hs, n - 1)
         IN IF before.kind = "string" THEN applyHunk(before.value, hs[n])
            ELSE before

\* the lines of all the strings of hs, in order
RECURSIVE linesOfAll(_)
linesOfAll(hs) ==
    IF Len(hs) = 0 THEN << >>
    ELSE split(Head(hs), <<NL>>) \o linesOfAll(Tail(hs))

\* the lines of the diff from its first '@@' line on
RECURSIVE hunkLinesOf(_)
hunkLinesOf(lines) ==
    IF Len(lines) = 0 THEN << >>
    ELSE IF isHeader(Head(lines)) THEN lines
    ELSE hunkLinesOf(Tail(lines))

\* C14: hunks are applied in diff order and cumulatively.  While
\* applyUnifiedDiff loops and when it has returned, the hunks are the
\* diff's hunks in the order of the diff, the text held after k hunks is
\* hunk k applied to the output of hunks 1..k-1 (starting from the base),
\* and the returned text is the output of the last hunk.
C14_CumulativeInOrder ==
    pc \in {"loop", "returned"} =>
        /\ k <= Len(hunkList)
        /\ pc = "returned" => k = Len(hunkList)
        /\ linesOfAll(hunkList) = hunkLinesOf(split(diff, <<NL>>))
        /\ Str(result) = applyInOrder(originalText, hunkList, k)

\* C14 witness: two hunks or more were applied, and the last one applied to
\* the original base would not have given the returned text
C14_Witness ==
    /\ pc = "returned"
    /\ k >= 2
    /\ applyHunk(originalText, hunkList[k]) # Str(result)
    /\ applyHunk(originalText, hunkList[k]) # Null
    /\ Len(result) > 0

\* a non-empty diff whose lines all carry a ' ', '-' or '+' prefix and
\* that has no '@@' line
HeaderlessValid(d) ==
    /\ Len(d) > 0
    /\ d[1] \in {" ", "-", "+"}
    /\ LET lines == split(d, <<NL>>)
       IN \A n \in 1..Len(lines) :
             Len(lines[n]) > 0 /\ lines[n][1] \in {" ", "-", "+"}

\* C15 as stated: a diff of prefixed lines without an '@@' line is applied
\* exactly like the same diff with an '@@' line in front.
C15_HeadersNotRequired ==
    (pc = "returned" /\ HeaderlessValid(diff)) =>
        applyUnifiedDiff(originalText, Header \o <<NL>> \o diff) = Str(result)

\* C15 amended: an '@@' line is required to start a hunk.  A non-empty
\* diff of prefixed lines without an '@@' line yields no hunk; no error is
\* raised and applyUnifiedDiff returns the base text unchanged.
C15_HeaderlessDiffIgnored ==
    HeaderlessValid(diff) =>
        /\ pc # "thrown"
        /\ pc \in {"loop", "returned"} =>
              hunkList = << >> /\ result = originalText

\* C15 witness: applyUnifiedDiff returned for a headerless diff that, with
\* an '@@' line in front, changes the base text
C15_Witness ==
    /\ pc = "returned"
    /\ HeaderlessValid(diff)
    /\ LET headed == applyUnifiedDiff(originalText, Header \o <<NL>> \o diff)
       IN /\ headed.kind = "string"
          /\ headed.value # originalText
          /\ Len(headed.value) > 0

----------------------------------------------------------------------------
(***************************************************************************)
(* Claims about extractChanges (SpecEC).                                   *)
(***************************************************************************)
\* C16: hasContentChange is true if and only if the changes list holds at
\* least one record (while the loop runs and in the returned value).
C16_FlagIffRecord ==
    pc \in {"compare", "extracted"} => (hasContentChange <=> Len(changes) > 0)

\* C16 witness: extractChanges returned two records or more
C16_Witness ==
    /\ pc = "extracted"
    /\ hasContentChange
    /\ Len(changes) >= 2

\* text has a line at zero-based position n
hasLine(text, n) == n < Len(split(text, <<NL>>))

\* C17: a record at position n is tagged 'add' exactly when the old text
\* has no line n, 'delete' exactly when the new text has no line n, and
\* 'modify' exactly when both have a line n (the lines differ; one of them
\* may be the empty string).
C17_ChangeTagging ==
    pc = "extracted" =>
        \A r \in 1..Len(changes) :
            LET n == changes[r].lineNumber - 1
            IN /\ changes[r].type = "add" <=> ~hasLine(oldText, n)
               /\ changes[r].type = "delete" <=> ~hasLine(newText, n)
               /\ changes[r].type = "modify" <=>
                     /\ hasLine(oldText, n) /\ hasLine(newText, n)
                     /\ oldLinesOf[n + 1] # newLinesOf[n + 1]

\* the two texts differ at zero-based position n: both have a line n and
\* the lines differ, or only one of them has a line n
differAt(n) ==
    \/ hasLine(oldText, n) /\ hasLine(newText, n)
          /\ oldLinesOf[n + 1] # newLinesOf[n + 1]
    \/ hasLine(oldText, n) # hasLine(newText, n)

\* C18: pure positional comparison.  For every position n below the larger
\* line count exactly one record with lineNumber n+1 exists when the texts
\* differ at n and none otherwise, the records are in increasing
\* lineNumber order, and hasContentChange is false only for identical
\* texts.
C18_PositionalComparison ==
    pc = "extracted" =>
        /\ \A n \in 0..(Max(Len(oldLinesOf), Len(newLinesOf)) - 1) :
              Cardinality({r \in 1..Len(changes) : changes[r].lineNumber = n + 1})
                 = IF differAt(n) THEN 1 ELSE 0
        /\ \A r \in 1..(Len(changes) - 1) :
              changes[r].lineNumber < changes[r + 1].lineNumber
        /\ ~hasContentChange => oldText = newText

----------------------------------------------------------------------------
(***************************************************************************)
(* Claims about applyUnifiedDiff on a drifted base (SpecDrift).            *)
(***************************************************************************)
\* one-based position of the line the diff replaces
replacedLine == firstDifference(oldLinesOf, newLinesOf, 0) + 1

\* the anchors with fewer context lines: the runs of consecutive lines of
\* the hunk's before view that contain the removed line, the full one
\* excepted
reducedAnchors ==
    LET before == hunkToBeforeAfter(findDiffHunks(diff)[1]).before
    IN {join(SubSeq(before, lo, hi), <<NL>>) :
           lo \in 1..replacedLine, hi \in replacedLine..Len(before)}
       \ {join(before, <<NL>>)}

\* C19: tier-2 drift absorption.  When a context line of the base changed
\* so that the full anchor of the hunk occurs nowhere in it, but an anchor
\* with fewer context lines that still holds the removed line occurs
\* exactly once, applyUnifiedDiff returns the base with the removed line
\* replaced by the added line.
C19_Tier2DriftAbsorption ==
    (/\ pc \in {"returned", "thrown"}
     /\ driftPos >= 0
     /\ occurrences(originalText, anchorOf(findDiffHunks(diff)[1])) = 0
     /\ \E a \in reducedAnchors : occurrences(originalText, a) = 1)
    => /\ pc = "returned"
       /\ result = join([split(originalText, <<NL>>)
                            EXCEPT ![replacedLine] = newLinesOf[replacedLine]],
                        <<NL>>)

----------------------------------------------------------------------------
(***************************************************************************)
(* Claims about the shape of calculateInternalDiff's hunks (SpecDC) and    *)
(* about termination of the diff computers (SpecDiff).                     *)
(***************************************************************************)
\* newText is oldText with exactly one line inserted
OneLineInserted ==
    \E p \in 0..Len(oldLinesOf) :
        \E x \in {newLinesOf[n] : n \in 1..Len(newLinesOf)} :
            newLinesOf = insertLine(oldLinesOf, p, x)

\* C21: resynchronisation.  When newText is oldText with exactly one line
\* inserted, calculateInternalDiff reports exactly one added line, the
\* inserted one, and no removed line.
C21_Resynchronisation ==
    (pc = "computed" /\ OneLineInserted) =>
        /\ Len(hunks) = 1
        /\ Len(markedLines(hunks[1], "-")) = 0
        /\ Len(markedLines(hunks[1], "+")) = 1
        /\ \E p \in 0..Len(oldLinesOf) :
              newLinesOf = insertLine(oldLinesOf, p, markedLines(hunks[1], "+")[1])

\* the lines of a hunk string whose marker is in ops, in order and without
\* the marker
viewOf(hunk, ops) ==
    LET ls == SelectSeq(Tail(split(hunk, <<NL>>)),
                        LAMBDA l : Len(l) > 0 /\ l[1] \in ops)
    IN [n \in 1..Len(ls) |-> SliceFrom(ls[n], 1)]

\* C26: whole-text partition.  Whenever the two texts differ,
\* calculateInternalDiff returns exactly one hunk, headed
\* '@@ -1,n +1,m @@' with n and m the line counts of oldText and newText;
\* its ' ' and '-' lines in order are the lines of oldText and its ' ' and
\* '+' lines in order are the lines of newText.
C26_WholeTextPartition ==
    (pc = "computed" /\ oldLinesOf # newLinesOf) =>
        /\ Len(hunks) = 1
        /\ Head(split(hunks[1], <<NL>>))
              = <<"@", "@", " ", "-", "1", ",">> \o numToString(Len(oldLinesOf))
                \o <<" ", "+", "1", ",">> \o numToString(Len(newLinesOf))
                \o <<" ", "@", "@">>
        /\ \A n \in 1..Len(Tail(split(hunks[1], <<NL>>))) :
              Tail(split(hunks[1], <<NL>>))[n][1] \in {" ", "-", "+"}
        /\ viewOf(hunks[1], {" ", "-"}) = oldLinesOf
        /\ viewOf(hunks[1], {" ", "+"}) = newLinesOf

\* C26 witness: a hunk with context, removed and added lines was returned
\* for two texts of different line counts
C26_Witness ==
    /\ pc = "computed"
    /\ Len(hunks) = 1
    /\ Len(oldLinesOf) # Len(newLinesOf)
    /\ Len(markedLines(hunks[1], " ")) > 0
    /\ Len(markedLines(hunks[1], "-")) > 0
    /\ Len(markedLines(hunks[1], "+")) > 0

\* C27: termination.  In both diff computers no cursor ever exceeds its
\* text's line count, and from every state in which the outer scan loop
\* runs another iteration, that iteration moves no cursor back, advances
\* at least one of them and stays within the line counts: the scan ends
\* after at most #lines(old) + #lines(new) iterations.
C27_Termination ==
    /\ i <= Len(oldLinesOf) /\ j <= Len(newLinesOf)
    /\ (pc \in {"diff", "scan"} /\ (i < Len(oldLinesOf) \/ j < Len(newLinesOf)))
       => LET it == IF pc = "diff"
                    THEN internalDiffIteration(oldLinesOf, newLinesOf, i, j)
                    ELSE unifiedDiffIteration(oldLinesOf, newLinesOf, i, j)
          IN /\ it.i >= i /\ it.j >= j
             /\ it.i + it.j > i + j
             /\ it.i <= Len(oldLinesOf) /\ it.j <= Len(newLinesOf)

\* C27 witness: a scan of two texts of different line counts has ended
\* with both cursors at the end of their texts
C27_Witness ==
    /\ pc \in {"computed", "returned"}
    /\ Len(oldLinesOf) # Len(newLinesOf)
    /\ i = Len(oldLinesOf)
    /\ j = Len(newLinesOf)
    /\ Len(hunks) >= 1

----------------------------------------------------------------------------
(***************************************************************************)
(* Claims about the tiers of applyHunk (SpecTier, SpecGCS).                *)
(***************************************************************************)
\* the candidate anchor flexibleApplyHunk decides on: the first one, in the
\* order of the sizes, that does not occur several times in text (the
\* empty string when every candidate does)
RECURSIVE decidingCandidate(_, _, _)
decidingCandidate(text, lines, sizes) ==
    IF Len(sizes) = 0 THEN EmptyStr
    ELSE LET c == trim(join(sliceLast(lines, Head(sizes).preContext), <<NL>>))
         IN IF Len(split(text, c)) > 2
            THEN decidingCandidate(text, lines, Tail(sizes))
            ELSE c

\* C22: tier-2 replacement text.  When flexibleApplyHunk finds a candidate
\* anchor that occurs exactly once in the text, it returns a text that
\* holds every added line of the hunk and fewer occurrences of every
\* removed line than the text had.
C22_Tier2ReplacementText ==
    LET c == decidingCandidate(callContent, callBefore,
                               getContextSizes(callBefore))
    IN (/\ pc = "flexibleApplyHunk"
        /\ Len(c) > 0
        /\ Len(split(callContent, c)) = 2)
       => /\ returned.kind = "string"
          /\ \A a \in {markedLines(callHunk, "+")[n] :
                          n \in 1..Len(markedLines(callHunk, "+"))} :
                Len(split(returned.value, a)) > 1
          /\ \A r \in {markedLines(callHunk, "-")[n] :
                          n \in 1..Len(markedLines(callHunk, "-"))} :
                Len(split(returned.value, r)) < Len(split(callContent, r))

\* the sizes from total t down to 0, within one total from preContext = t
\* down to preContext = 0
RECURSIVE sizesDown(_)
sizesDown(t) ==
    IF t < 0 THEN << >>
    ELSE [q \in 1..(t + 1) |-> [preContext |-> t - q + 1, postContext |-> q - 1]]
         \o sizesDown(t - 1)

abs(n) == IF n < 0 THEN -n ELSE n

\* C23 as stated: the pairs come in order of decreasing total, from the
\* number of lines down to 0, every split of each total is tried, and the
\* first split of each total is the most balanced one.
C23_CandidateOrder ==
    pc = "exhausted" =>
        /\ Len(returned) > 0
        /\ returned[1].preContext + returned[1].postContext = Len(callBefore)
        /\ returned[Len(returned)].preContext
              + returned[Len(returned)].postContext = 0
        /\ \A n \in 1..(Len(returned) - 1) :
              returned[n].preContext + returned[n].postContext
                 >= returned[n + 1].preContext + returned[n + 1].postContext
        /\ \A t \in 0..Len(callBefore) : \A p \in 0..t :
              \E n \in 1..Len(returned) :
                  returned[n] = [preContext |-> p, postContext |-> t - p]
        /\ \A n \in 1..Len(returned) :
              (n = 1 \/ returned[n - 1].preContext + returned[n - 1].postContext
                          # returned[n].preContext + returned[n].postContext)
              => abs(returned[n].preContext - returned[n].postContext) <= 1

\* C23 amended: getContextSizes yields the pairs in order of decreasing
\* total, from min(5, number of lines) down to 0; within one total it
\* yields every split exactly once, from preContext = total down to
\* preContext = 0 (the largest preContext first, not the most balanced).
C23_LargestPreContextFirst ==
    /\ pc = "getContextSizes" =>
          returned = SubSeq(sizesDown(Min(5, Len(callBefore))), 1, Len(returned))
    /\ pc = "exhausted" =>
          /\ returned = sizesDown(Min(5, Len(callBefore)))
          /\ returned = getContextSizes(callBefore)

\* C23 witness: the generator is exhausted for more than 5 lines
C23_Witness ==
    /\ pc = "exhausted"
    /\ Len(callBefore) > 5
    /\ Len(returned) > 6

\* the arguments of the direct tier's searchAndReplace call
trimmedBeforeOf == trim(join(callBefore, <<NL>>))
trimmedAfterOf == trim(join(callAfter, <<NL>>))

\* callContent with the first occurrence of search replaced by replace
spliced(search, replace) ==
    LET at == indexOf(callContent, search, 1)
    IN SubSeq(callContent, 1, at - 1) \o replace
       \o SubSeq(callContent, at + Len(search), Len(callContent))

\* C24: unique-match splice.  When the non-empty search text occurs
\* exactly once in the text, searchAndReplace, and directlyApplyHunk on
\* the trimmed anchor, return prefix + replace + suffix: the text outside
\* the occurrence is unchanged.
C24_UniqueMatchSplice ==
    (/\ pc \in {"searchAndReplace", "directlyApplyHunk"}
     /\ Len(trimmedBeforeOf) > 0
     /\ Len(split(callContent, trimmedBeforeOf)) = 2)
    => returned = Str(spliced(trimmedBeforeOf, trimmedAfterOf))

\* C24 witness: searchAndReplace replaced a unique occurrence that has
\* text after it by a different, non-empty text
C24_Witness ==
    /\ pc = "searchAndReplace"
    /\ Len(trimmedBeforeOf) > 0
    /\ Len(split(callContent, trimmedBeforeOf)) = 2
    /\ indexOf(callContent, trimmedBeforeOf, 1) + Len(trimmedBeforeOf)
          <= Len(callContent)
    /\ Len(trimmedAfterOf) > 0
    /\ trimmedAfterOf # trimmedBeforeOf

\* the direct tier must not act: the trimmed before-text is empty, or it
\* is shorter than 10 characters and occurs more than once
DirectTierGuarded ==
    \/ Len(trimmedBeforeOf) = 0
    \/ /\ Len(trimmedBeforeOf) < 10
       /\ Len(split(callContent, trimmedBeforeOf)) > 2

\* C25: tier-1 guard.  When the trimmed before-text is empty, or shorter
\* than 10 characters and occurring more than once, directlyApplyHunk
\* returns null and applyHunk returns what flexibleApplyHunk returns.
C25_Tier1Guard ==
    DirectTierGuarded =>
        /\ pc = "directlyApplyHunk" => returned = Null
        /\ pc = "applied" =>
              returned = flexibleApplyHunk(callContent, callBefore, callAfter)

\* C25 witness: applyHunk was called with a short before-text that occurs
\* twice
C25_Witness ==
    /\ pc = "applied"
    /\ Len(trimmedBeforeOf) > 0
    /\ Len(trimmedBeforeOf) < 10
    /\ Len(split(callContent, trimmedBeforeOf)) > 2

(***************************************************************************)
(* AbstractionViewProvider.withLock (abstractionViewProvider.ts:81-98),    *)
(* for one fileUri.  Each caller runs the async function once; a step of   *)
(* the model is the code a caller runs between two awaits.  The lock       *)
(* promise a caller creates is named by the caller, 0 stands for           *)
(* undefined (no entry in the map).                                        *)
(***************************************************************************)
NumCallers == 3        \* concurrent callers of withLock for the fileUri

Callers == 1..NumCallers

InitWL ==
    /\ pc = "withLock"
    /\ lockPc = [c \in Callers |-> "idle"]
    /\ awaitedLock = [c \in Callers |-> 0]
    /\ generationLocks = 0
    /\ resolvedLocks = {}
    /\ oldText = EmptyStr
    /\ newText = EmptyStr
    /\ i = 0
    /\ j = 0
    /\ hunks = << >>
    /\ hunkSrc = << >>
    /\ diff = EmptyStr
    /\ originalText = EmptyStr
    /\ driftPos = -1
    /\ hunkList = << >>
    /\ k = 0
    /\ result = EmptyStr
    /\ error = FALSE
    /\ changes = << >>
    /\ hasContentChange = FALSE
    /\ callContent = EmptyStr
    /\ callHunk = EmptyStr
    /\ callBefore = << >>
    /\ callAfter = << >>
    /\ returned = Unused
    /\ genTotal = 0
    /\ genPre = 0
    /\ savePc = Unused
    /\ saveMapping = Unused
    /\ isApplyingChanges = FALSE
    /\ codeMap = 0
    /\ providePc = Unused
    /\ genPc = Unused
    /\ generatingContent = FALSE
    /\ cachedPseudocode = FALSE
    /\ immediates = << >>

\* line 83: the caller reads the map and awaits what it read
WLCall(c) ==
    /\ pc = "withLock"
    /\ lockPc[c] = "idle"
    /\ awaitedLock' = [awaitedLock EXCEPT ![c] = generationLocks]
    /\ lockPc' = [lockPc EXCEPT ![c] = "awaiting"]
    /\ UNCHANGED <<generationLocks, resolvedLocks>>
    /\ UNCHANGED <<pc, oldText, newText, i, j, hunks, hunkSrc, diff,
                   originalText, driftPos, hunkList, k, result, error,
                   changes, hasContentChange, tierVars, saveVars,
                   provideVars>>

\* lines 85-93: the awaited value has settled (undefined settles at once);
\* the caller makes its lock, stores it and starts operation()
WLAcquire(c) ==
    /\ pc = "withLock"
    /\ lockPc[c] = "awaiting"
    /\ awaitedLock[c] = 0 \/ awaitedLock[c] \in resolvedLocks
    /\ generationLocks' = c
    /\ lockPc' = [lockPc EXCEPT ![c] = "operating"]
    /\ UNCHANGED <<awaitedLock, resolvedLocks>>
    /\ UNCHANGED <<pc, oldText, newText, i, j, hunks, hunkSrc, diff,
                   originalText, driftPos, hunkList, k, result, error,
                   changes, hasContentChange, tierVars, saveVars,
                   provideVars>>

\* lines 93-97: operation() has settled; finally resolves the caller's lock
\* and deletes the map entry, whoever stored it
WLRelease(c) ==
    /\ pc = "withLock"
    /\ lockPc[c] = "operating"
    /\ resolvedLocks' = resolvedLocks \cup {c}
    /\ generationLocks' = 0
    /\ lockPc' = [lockPc EXCEPT ![c] = "done"]
    /\ UNCHANGED <<awaitedLock>>
    /\ UNCHANGED <<pc, oldText, newText, i, j, hunks, hunkSrc, diff,
                   originalText, driftPos, hunkList, k, result, error,
                   changes, hasContentChange, tierVars, saveVars,
                   provideVars>>

NextWL ==
    \E c \in Callers : WLCall(c) \/ WLAcquire(c) \/ WLRelease(c)

SpecWL == InitWL /\ [][NextWL]_vars

Operating == {c \in Callers : lockPc[c] = "operating"}

\* C28: for the fileUri at most one operation passed to withLock is
\* executing at any time, whatever the number of callers and the
\* interleaving of their awaits.
C28_MutualExclusion ==
    pc = "withLock" => Cardinality(Operating) <= 1

(***************************************************************************)
(* AbstractionManager.handleCodeSave (abstractionManager.ts:262-348) for   *)
(* one document.  The save handler starts an invocation per save           *)
(* (setupSaveHandler, 651-667); a step of the model is the code one        *)
(* invocation runs between two awaits.  The code map entry is modelled by  *)
(* its version, 0 when there is none.                                      *)
(***************************************************************************)
NumSaves == 3          \* invocations of handleCodeSave

Saves == 1..NumSaves

SaveAwaits == {"generatePseudocode", "updatePseudocode", "openTextDocument",
               "applyEdit", "save"}

InitHCS ==
    /\ pc = "handleCodeSave"
    /\ savePc = [c \in Saves |-> "idle"]
    /\ saveMapping = [c \in Saves |-> 0]
    /\ isApplyingChanges = FALSE
    /\ codeMap \in {0, 1}
    /\ lockPc = Unused
    /\ awaitedLock = Unused
    /\ generationLocks = 0
    /\ resolvedLocks = {}
    /\ oldText = EmptyStr
    /\ newText = EmptyStr
    /\ i = 0
    /\ j = 0
    /\ hunks = << >>
    /\ hunkSrc = << >>
    /\ diff = EmptyStr
    /\ originalText = EmptyStr
    /\ driftPos = -1
    /\ hunkList = << >>
    /\ k = 0
    /\ result = EmptyStr
    /\ error = FALSE
    /\ changes = << >>
    /\ hasContentChange = FALSE
    /\ callContent = EmptyStr
    /\ callHunk = EmptyStr
    /\ callBefore = << >>
    /\ callAfter = << >>
    /\ returned = Unused
    /\ genTotal = 0
    /\ genPre = 0
    /\ providePc = Unused
    /\ genPc = Unused
    /\ generatingContent = FALSE
    /\ cachedPseudocode = FALSE
    /\ immediates = << >>

\* the early return of a variant that tests the flag inside the try block:
\* its finally clears the flag of the invocation that is running
HCSSkipInsideTry(c) ==
    /\ pc = "handleCodeSave"
    /\ savePc[c] = "idle"
    /\ isApplyingChanges
    /\ savePc' = [savePc EXCEPT ![c] = "skipped"]
    /\ isApplyingChanges' = FALSE
    /\ UNCHANGED <<saveMapping, codeMap>>
    /\ UNCHANGED <<pc, oldText, newText, i, j, hunks, hunkSrc, diff,
                   originalText, driftPos, hunkList, k, result, error,
                   changes, hasContentChange, tierVars, lockVars,
                   provideVars>>

\* lines 264-266: the flag is set, return before the try block
HCSSkip(c) ==
    /\ pc = "handleCodeSave"
    /\ savePc[c] = "idle"
    /\ isApplyingChanges
    /\ savePc' = [savePc EXCEPT ![c] = "skipped"]
    /\ UNCHANGED <<saveMapping, isApplyingChanges, codeMap>>
    /\ UNCHANGED <<pc, oldText, newText, i, j, hunks, hunkSrc, diff,
                   originalText, driftPos, hunkList, k, result, error,
                   changes, hasContentChange, tierVars, lockVars,
                   provideVars>>

\* lines 264-295: the flag is clear; set it, read the mapping, and run to
\* the first await, or to the return of an unchanged document (finally)
HCSEnter(c) ==
    /\ pc = "handleCodeSave"
    /\ savePc[c] = "idle"
    /\ ~isApplyingChanges
    /\ saveMapping' = [saveMapping EXCEPT ![c] = codeMap]
    /\ \E hasChanges \in BOOLEAN :
         IF codeMap = 0
           THEN /\ savePc' = [savePc EXCEPT ![c] = "generatePseudocode"]
                /\ isApplyingChanges' = TRUE
           ELSE IF ~hasChanges
             THEN /\ savePc' = [savePc EXCEPT ![c] = "returned"]
                  /\ isApplyingChanges' = FALSE
             ELSE /\ savePc' = [savePc EXCEPT ![c] = "updatePseudocode"]
                  /\ isApplyingChanges' = TRUE
    /\ UNCHANGED <<codeMap>>
    /\ UNCHANGED <<pc, oldText, newText, i, j, hunks, hunkSrc, diff,
                   originalText, driftPos, hunkList, k, result, error,
                   changes, hasContentChange, tierVars, lockVars,
                   provideVars>>

\* lines 278-280: generatePseudocode settled; return, or catch, then finally.
\* A generation that succeeds stores a mapping of version 1 under the
\* active editor's URI (lines 373-384), which may be this document's
HCSGenerated(c) ==
    /\ pc = "handleCodeSave"
    /\ savePc[c] = "generatePseudocode"
    /\ \E outcome \in {"returned", "caught"}, active \in BOOLEAN :
         /\ savePc' = [savePc EXCEPT ![c] = outcome]
         /\ codeMap' = IF outcome = "returned" /\ active THEN 1 ELSE codeMap
    /\ isApplyingChanges' = FALSE
    /\ UNCHANGED <<saveMapping>>
    /\ UNCHANGED <<pc, oldText, newText, i, j, hunks, hunkSrc, diff,
                   originalText, driftPos, hunkList, k, result, error,
                   changes, hasContentChange, tierVars, lockVars,
                   provideVars>>

\* lines 295-329: updatePseudocode settled.  An empty diff or an unchanged
\* pseudocode returns, a rejection is caught; otherwise the new mapping,
\* one version above the mapping read at line 276, is stored
HCSUpdated(c) ==
    /\ pc = "handleCodeSave"
    /\ savePc[c] = "updatePseudocode"
    /\ \E outcome \in {"throw", "empty", "same", "new"} :
         IF outcome = "new"
           THEN /\ codeMap' = saveMapping[c] + 1
                /\ savePc' = [savePc EXCEPT ![c] = "openTextDocument"]
                /\ UNCHANGED isApplyingChanges
           ELSE /\ savePc' = [savePc EXCEPT ![c] =
                                IF outcome = "throw" THEN "caught"
                                                     ELSE "returned"]
                /\ isApplyingChanges' = FALSE
                /\ UNCHANGED codeMap
    /\ UNCHANGED <<saveMapping>>
    /\ UNCHANGED <<pc, oldText, newText, i, j, hunks, hunkSrc, diff,
                   originalText, driftPos, hunkList, k, result, error,
                   changes, hasContentChange, tierVars, lockVars,
                   provideVars>>

\* lines 329-337: one of the three awaits of the write-back settled
HCSWriteBack(c) ==
    /\ pc = "handleCodeSave"
    /\ savePc[c] \in {"openTextDocument", "applyEdit", "save"}
    /\ \E rejected \in BOOLEAN :
         IF rejected
           THEN /\ savePc' = [savePc EXCEPT ![c] = "caught"]
                /\ isApplyingChanges' = FALSE
           ELSE IF savePc[c] = "save"
             THEN /\ savePc' = [savePc EXCEPT ![c] = "returned"]
                  /\ isApplyingChanges' = FALSE
             ELSE /\ savePc' = [savePc EXCEPT ![c] =
                                  IF savePc[c] = "openTextDocument"
                                    THEN "applyEdit" ELSE "save"]
                  /\ UNCHANGED isApplyingChanges
    /\ UNCHANGED <<saveMapping, codeMap>>
    /\ UNCHANGED <<pc, oldText, newText, i, j, hunks, hunkSrc, diff,
                   originalText, driftPos, hunkList, k, result, error,
                   changes, hasContentChange, tierVars, lockVars,
                   provideVars>>

NextHCS ==
    \E c \in Saves :
        \/ HCSSkip(c)
        \/ HCSEnter(c)
        \/ HCSGenerated(c)
        \/ HCSUpdated(c)
        \/ HCSWriteBack(c)

SpecHCS == InitHCS /\ [][NextHCS]_vars

InsideTry == {c \in Saves : savePc[c] \in SaveAwaits}

HCSSkipStep ==
    \E c \in Saves : /\ savePc[c] = "idle"
                     /\ isApplyingChanges
                     /\ savePc'[c] # "idle"

\* C29: handleCodeSave is non-reentrant.  At any time at most one
\* invocation is between setting isApplyingChanges and the finally block;
\* the flag is set exactly while there is one, so it is false again once
\* that invocation has ended by return, completion or caught error; and an
\* invocation that finds the flag set returns leaving the code map and the
\* flag as they were.
C29_NonReentrant ==
    /\ [](pc = "handleCodeSave" =>
            /\ Cardinality(InsideTry) <= 1
            /\ isApplyingChanges <=> InsideTry # {})
    /\ [][pc = "handleCodeSave" /\ HCSSkipStep =>
            UNCHANGED <<codeMap, isApplyingChanges>>]_vars

C29_Witness ==
    /\ pc = "handleCodeSave"
    /\ \E c, d, e \in Saves :
         /\ savePc[c] = "skipped"
         /\ savePc[d] = "caught"
         /\ savePc[e] = "save"
         /\ codeMap = 2

(***************************************************************************)
(* AbstractionViewProvider.provideTextDocumentContent and generateContent  *)
(* (abstractionViewProvider.ts:182-334) for one abstraction URI.  The      *)
(* editor calls the provider whenever it wants the document's content; a   *)
(* step of the model is the code that runs between two awaits, promise     *)
(* reactions included, or one setImmediate callback.                       *)
(***************************************************************************)
NumCalls == 3          \* calls of provideTextDocumentContent

Calls == 1..NumCalls

InitPTDC ==
    /\ pc = "provideTextDocumentContent"
    /\ providePc = [c \in Calls |-> "idle"]
    /\ genPc = [c \in Calls |-> "none"]
    /\ generatingContent = FALSE
    /\ cachedPseudocode = FALSE
    /\ immediates = << >>
    /\ savePc = Unused
    /\ saveMapping = Unused
    /\ isApplyingChanges = FALSE
    /\ codeMap = 0
    /\ lockPc = Unused
    /\ awaitedLock = Unused
    /\ generationLocks = 0
    /\ resolvedLocks = {}
    /\ oldText = EmptyStr
    /\ newText = EmptyStr
    /\ i = 0
    /\ j = 0
    /\ hunks = << >>
    /\ hunkSrc = << >>
    /\ diff = EmptyStr
    /\ originalText = EmptyStr
    /\ driftPos = -1
    /\ hunkList = << >>
    /\ k = 0
    /\ result = EmptyStr
    /\ error = FALSE
    /\ changes = << >>
    /\ hasContentChange = FALSE
    /\ callContent = EmptyStr
    /\ callHunk = EmptyStr
    /\ callBefore = << >>
    /\ callAfter = << >>
    /\ returned = Unused
    /\ genTotal = 0
    /\ genPre = 0

\* lines 182-209: return the buffer while generating, else the cached
\* pseudocode, else set the flag and await openTextDocument
PTDCCall(c) ==
    /\ pc = "provideTextDocumentContent"
    /\ providePc[c] = "idle"
    /\ IF generatingContent \/ cachedPseudocode
         THEN /\ providePc' = [providePc EXCEPT ![c] = "returned"]
              /\ UNCHANGED generatingContent
         ELSE /\ providePc' = [providePc EXCEPT ![c] = "openTextDocument"]
              /\ generatingContent' = TRUE
    /\ UNCHANGED <<genPc, cachedPseudocode, immediates>>
    /\ UNCHANGED <<pc, oldText, newText, i, j, hunks, hunkSrc, diff,
                   originalText, driftPos, hunkList, k, result, error,
                   changes, hasContentChange, tierVars, lockVars, saveVars>>

\* lines 209-244: openTextDocument settled.  On success generateContent is
\* called and runs to its await of withProgress, and the call returns the
\* initial content; on rejection both catch blocks delete the flag
PTDCOpened(c) ==
    /\ pc = "provideTextDocumentContent"
    /\ providePc[c] = "openTextDocument"
    /\ \E rejected \in BOOLEAN :
         IF rejected
           THEN /\ providePc' = [providePc EXCEPT ![c] = "threw"]
                /\ generatingContent' = FALSE
                /\ UNCHANGED genPc
           ELSE /\ providePc' = [providePc EXCEPT ![c] = "returned"]
                /\ genPc' = [genPc EXCEPT ![c] = "generating"]
                /\ UNCHANGED generatingContent
    /\ UNCHANGED <<cachedPseudocode, immediates>>
    /\ UNCHANGED <<pc, oldText, newText, i, j, hunks, hunkSrc, diff,
                   originalText, driftPos, hunkList, k, result, error,
                   changes, hasContentChange, tierVars, lockVars, saveVars>>

\* lines 263-296: generatePseudocode resolved; the result is cached (an
\* empty pseudocode is not truthy) and the auto-save awaits begin
GCGenerated(c) ==
    /\ pc = "provideTextDocumentContent"
    /\ genPc[c] = "generating"
    /\ \E empty \in BOOLEAN :
         cachedPseudocode' = IF empty THEN FALSE ELSE TRUE
    /\ genPc' = [genPc EXCEPT ![c] = "autoSave"]
    /\ UNCHANGED <<providePc, generatingContent, immediates>>
    /\ UNCHANGED <<pc, oldText, newText, i, j, hunks, hunkSrc, diff,
                   originalText, driftPos, hunkList, k, result, error,
                   changes, hasContentChange, tierVars, lockVars, saveVars>>

\* lines 296-333: the auto-save settled (its errors are swallowed), the run
\* ends; finally queues the cleanup with setImmediate
GCCompleted(c) ==
    /\ pc = "provideTextDocumentContent"
    /\ genPc[c] = "autoSave"
    /\ genPc' = [genPc EXCEPT ![c] = "completed"]
    /\ immediates' = Append(immediates, c)
    /\ UNCHANGED <<providePc, generatingContent, cachedPseudocode>>
    /\ UNCHANGED <<pc, oldText, newText, i, j, hunks, hunkSrc, diff,
                   originalText, driftPos, hunkList, k, result, error,
                   changes, hasContentChange, tierVars, lockVars, saveVars>>

\* lines 312-333 and 216-223: generatePseudocode rejected; catch rethrows,
\* finally queues the cleanup, and the rejection reaches the caller's
\* catch handler, which deletes the flag, before any other task runs
GCFailed(c) ==
    /\ pc = "provideTextDocumentContent"
    /\ genPc[c] = "generating"
    /\ genPc' = [genPc EXCEPT ![c] = "failed"]
    /\ immediates' = Append(immediates, c)
    /\ generatingContent' = FALSE
    /\ UNCHANGED <<providePc, cachedPseudocode>>
    /\ UNCHANGED <<pc, oldText, newText, i, j, hunks, hunkSrc, diff,
                   originalText, driftPos, hunkList, k, result, error,
                   changes, hasContentChange, tierVars, lockVars, saveVars>>

\* lines 320-323: the oldest queued cleanup runs and deletes the flag
RunImmediate ==
    /\ pc = "provideTextDocumentContent"
    /\ immediates # << >>
    /\ immediates' = Tail(immediates)
    /\ generatingContent' = FALSE
    /\ UNCHANGED <<providePc, genPc, cachedPseudocode>>
    /\ UNCHANGED <<pc, oldText, newText, i, j, hunks, hunkSrc, diff,
                   originalText, driftPos, hunkList, k, result, error,
                   changes, hasContentChange, tierVars, lockVars, saveVars>>

NextPTDC ==
    \/ \E c \in Calls :
         \/ PTDCCall(c)
         \/ PTDCOpened(c)
         \/ GCGenerated(c)
         \/ GCCompleted(c)
         \/ GCFailed(c)
    \/ RunImmediate

SpecPTDC == InitPTDC /\ [][NextPTDC]_vars

InProgress == {c \in Calls : genPc[c] \in {"generating", "autoSave"}}

\* C30: at most one generation is in flight for the URI, in every
\* interleaving of calls: provideTextDocumentContent starts a
\* generateContent run only when no earlier run is still in progress.
C30_OneGenerationInFlight ==
    pc = "provideTextDocumentContent" => Cardinality(InProgress) <= 1

=============================================================================
